---- MODULE Spec2Model ----
(***************************************************************************)
(* A model of the diff-parsing and change-localization core of the        *)
(* CodeOwl extension: GitIntegration (repository discovery, commit        *)
(* watching, commit acquisition) and parseDiffText.                       *)
(*                                                                         *)
(* Environment: the workspace holds one git repository.  Its HEAD commit  *)
(* (repo.state.HEAD.commit) changes by Commit; the git extension delivers *)
(* state.onDidChange by Notify, as often as it likes.  Time is abstracted:  *)
(* a pending timer holds the delay it was scheduled with and may fire at  *)
(* any later step, so timers of different chains fire in every order.     *)
(***************************************************************************)
EXTENDS Integers, Sequences, FiniteSets, Bags, TLC

VARIABLES
  initPending,    \* initializeGit calls suspended at `await gitExtension.activate()`
  refreshes,      \* refreshGitDetection calls made so far
  gitApi,         \* this.gitApi is set
  repoOpen,       \* gitApi.repositories holds the repository
  head,           \* repo.state.HEAD.commit (NULL: no commit)
  commits,        \* revision changes made so far
  repository,     \* this.repository is set
  listeners,      \* state.onDidChange listeners registered on the repository
  lastCommitSha,  \* this.lastCommitSha
  timers,         \* bag of the pending setTimeout retries of findAndSetupRepository
  exhausted,      \* the numbers of checks made by the polling chains that gave up
  handlers,       \* bag of the handleRepositoryChange calls made so far
  latestObserved, \* the HEAD commit the last notification delivered found (NULL:
                  \* none, or no notification yet)
  source,         \* parser: the file records the input text was serialized from
  input,          \* parser: the text handed to parseDiffText
  parsed,         \* parser: what parseDiffText returned
  ppc,            \* parser: "idle" | "ready" | "done"
  apc,            \* analyzeNewCommit: "idle" | "list" | "files" | "done"
  changedFiles,   \* analyzeNewCommit: what the changed-file list query gives, each
                  \* change with the answer its per-file diff request will get
  fileIndex,      \* analyzeNewCommit: the change the for loop is at
  fullDiffText,   \* analyzeNewCommit: the text built so far
  parserCalls,    \* analyzeNewCommit: the texts parseDiffText was called with
  sidebar,        \* the analyses passed to sendCommitAnalysisToSidebar
  errorMessages,  \* the showErrorMessage calls made
  threads,        \* CommentManager.threads: thread id -> comment thread
  threadData,     \* CommentManager.threadData: thread id -> suggestion, conversation
  nextThreadId,   \* the thread ids are fresh: the next one
  reviews,        \* displayReviewsAsComments calls made so far
  displays,       \* the displayReviewsAsComments calls suspended at findFiles
  applyCalls,     \* applySuggestion calls made so far
  applying,       \* the applySuggestion calls suspended at applyEdit
  edits,          \* the edit workspace.applyEdit answered in the last step, with the answer
  notices,        \* the messages shown or logged in the last step
  aiCalls,        \* the requests made to llmService so far
  asking,         \* the fixWithAI and reply calls suspended at llmService
  removals,       \* the pending timers of replies: markAsUnderstood in 2 s
  rpc,            \* a review request: "idle" | "asked" | "done"
  reviewRequest,  \* a review request: which method, the first file, what the model answers
  review,         \* a review request: what the method returned
  now,            \* file watcher: the time, in ms
  updateTimeout,  \* file watcher: the timer set last (by its due time, NoTimer:
                  \* null) and the due times of the timers set and not yet
                  \* fired or cleared
  lastEvent,      \* file watcher: the time of the last relevant file event (NoTimer: none)
  bursts,         \* file watcher: the bursts of relevant file events so far, each
                  \* by the number of its events
  fileEvents,     \* file watcher: the file events handled so far
  refreshCalls    \* file watcher: the refreshRepositoryInfo calls so far

watcherVars == <<initPending, refreshes, gitApi, repoOpen, head, commits,
                 repository, listeners, lastCommitSha, timers, exhausted, handlers,
                 latestObserved>>
parserVars == <<source, input, parsed, ppc>>
acquireVars == <<apc, changedFiles, fileIndex, fullDiffText, parserCalls, sidebar,
                 errorMessages>>
\* what the watcher's steps leave alone, and what a parseDiffText call does
commentVars == <<threads, threadData, nextThreadId, reviews, displays, applyCalls,
                 applying, edits, notices, aiCalls, asking, removals>>
aiVars == <<aiCalls, asking, removals>>
reviewVars == <<rpc, reviewRequest, review>>
debounceVars == <<now, updateTimeout, lastEvent, bursts, fileEvents, refreshCalls>>
nonWatcherVars == <<parserVars, acquireVars, commentVars, reviewVars, debounceVars>>
nonParserVars == <<watcherVars, acquireVars, commentVars, reviewVars, debounceVars>>
nonAcquireVars == <<watcherVars, parserVars, commentVars, reviewVars, debounceVars>>
nonCommentVars == <<watcherVars, parserVars, acquireVars, reviewVars, debounceVars>>
vars == <<watcherVars, parserVars, acquireVars, commentVars, reviewVars, debounceVars>>

\* no timer, no event yet
NoTimer == -1

\* no review request and no file event is modelled
ReviewIdle == rpc = "idle" /\ reviewRequest = <<>> /\ review = <<>>
DebounceIdle ==
  /\ now = 0 /\ updateTimeout = [handle |-> NoTimer, pending |-> {}]
  /\ lastEvent = NoTimer /\ bursts = <<>> /\ fileEvents = 0 /\ refreshCalls = 0

\* no analyzeNewCommit call is modelled in detail
AcquireIdle ==
  /\ apc = "idle" /\ changedFiles = <<>> /\ fileIndex = 0 /\ fullDiffText = <<>>
  /\ parserCalls = <<>> /\ sidebar = <<>> /\ errorMessages = 0

\* new CommentManager(): no thread, no call in flight
CommentsIdle ==
  /\ threads = <<>> /\ threadData = <<>> /\ nextThreadId = 1
  /\ reviews = 0 /\ displays = {} /\ applyCalls = 0 /\ applying = {}
  /\ edits = {} /\ notices = {}
  /\ aiCalls = 0 /\ asking = {} /\ removals = {}

NULL == "null"
Revisions == {"r1", "r2"}

\* findAndSetupRepository(5)
PollAttempts == 5
\* setTimeout(..., 500), in ms
RetryDelay == 500

MaxRefresh == 1
MaxCommits == 2
MaxHandlers == 2

(***************************************************************************)
(* GitIntegration: repository discovery                                    *)
(***************************************************************************)

\* setupRepositoryListeners: the value lastCommitSha has afterwards
InitialCommitTracking(last, h) == IF h # NULL THEN h ELSE last

\* as RetriesExhausted, with the bound off by one
RetriesExhaustedOffByOne(retriesLeft) == retriesLeft < 0

\* findAndSetupRepository: `if (retriesLeft <= 0) return`
RetriesExhausted(retriesLeft) == retriesLeft <= 0

\* findAndSetupRepository: `this.gitApi && this.gitApi.repositories.length > 0`
RepositoryAvailable(api) == api /\ repoOpen

\* findAndSetupRepository: the argument of the retry handed to setTimeout
NextRetry(retriesLeft) == retriesLeft - 1

\* setupRepositoryListeners(repo): registers a state.onDidChange listener and
\* reads repo.state.HEAD into lastCommitSha
SetupRepositoryListeners ==
  /\ listeners' = listeners + 1
  /\ lastCommitSha' = InitialCommitTracking(lastCommitSha, head)

\* A pending retry: the argument it will pass, the delay it was scheduled with,
\* and the number of repository checks its chain has made so far.
Timer(retriesLeft, checks) ==
  [retriesLeft |-> retriesLeft, delay |-> RetryDelay, checks |-> checks]

\* findAndSetupRepository(retriesLeft) of a chain that has made `checks` checks;
\* ts: the other pending retries
FindAndSetupRepository(retriesLeft, checks, ts, api) ==
  IF RetriesExhausted(retriesLeft)
  THEN /\ timers' = ts
       /\ exhausted' = exhausted \cup {checks}
       /\ UNCHANGED <<repository, listeners, lastCommitSha>>
  ELSE IF RepositoryAvailable(api)
       THEN /\ timers' = ts
            /\ repository' = TRUE
            /\ SetupRepositoryListeners
            /\ UNCHANGED exhausted
       ELSE /\ timers' = ts (+) SetToBag({Timer(NextRetry(retriesLeft), checks + 1)})
            /\ UNCHANGED <<repository, listeners, lastCommitSha, exhausted>>

\* initializeGit resumes after `await gitExtension.activate()`: with the API it
\* calls findAndSetupRepository(5) and registers an onDidOpenRepository listener;
\* when the extension or its API cannot be had (ok = FALSE) it returns.
ResumeInitializeGit ==
  /\ initPending > 0
  /\ initPending' = initPending - 1
  /\ \E ok \in BOOLEAN :
       IF ok
       THEN /\ gitApi' = TRUE
            /\ FindAndSetupRepository(PollAttempts, 0, timers, TRUE)
       ELSE UNCHANGED <<gitApi, timers, exhausted, repository, listeners, lastCommitSha>>
  /\ UNCHANGED <<refreshes, repoOpen, head, commits, handlers, latestObserved, nonWatcherVars>>

\* refreshGitDetection: calls initializeGit, which suspends at activate()
RefreshGitDetection ==
  /\ refreshes < MaxRefresh
  /\ refreshes' = refreshes + 1
  /\ initPending' = initPending + 1
  /\ UNCHANGED <<gitApi, repoOpen, head, commits, repository, listeners,
                 lastCommitSha, timers, exhausted, handlers, latestObserved, nonWatcherVars>>

\* The git extension opens the repository and fires onDidOpenRepository; of the
\* listeners initializeGit registered (gitApi: there is one) the first that finds
\* this.repository unset assigns it and sets up the listeners.
OpenRepository ==
  /\ ~repoOpen
  /\ repoOpen' = TRUE
  /\ IF gitApi /\ ~repository
     THEN /\ repository' = TRUE
          /\ SetupRepositoryListeners
     ELSE UNCHANGED <<repository, listeners, lastCommitSha>>
  /\ UNCHANGED <<initPending, refreshes, gitApi, head, commits, timers, exhausted,
                 handlers, latestObserved, nonWatcherVars>>

\* A pending retry fires: findAndSetupRepository(retriesLeft - 1)
FireRetry(t) ==
  /\ BagIn(t, timers)
  /\ FindAndSetupRepository(t.retriesLeft, t.checks, timers (-) SetToBag({t}), gitApi)
  /\ UNCHANGED <<initPending, refreshes, gitApi, repoOpen, head, commits, handlers, latestObserved, nonWatcherVars>>

(***************************************************************************)
(* GitIntegration: commit watching                                         *)
(***************************************************************************)

\* The repository's revision changes
Commit(r) ==
  /\ commits < MaxCommits
  /\ r # head
  /\ head' = r
  /\ commits' = commits + 1
  /\ UNCHANGED <<initPending, refreshes, gitApi, repoOpen, repository, listeners,
                 lastCommitSha, timers, exhausted, handlers, latestObserved, nonWatcherVars>>

\* as NewCommitDetected, without the test that a baseline exists
NewCommitDetectedNoBaseline(last, h) == last # h

\* handleRepositoryChange: `this.lastCommitSha && this.lastCommitSha !== head.commit`
NewCommitDetected(last, h) == last # NULL /\ last # h

\* as HandlerStart, without the test `head && head.commit`
HandlerStartNoHeadTest(last, h, wt) ==
  IF NewCommitDetected(last, h)
  THEN [observed |-> h, acq |-> <<last, h>>, pc |-> "analyzeNewCommit", outcome |-> "none"]
  ELSE [observed |-> h, acq |-> <<>>,
        pc |-> IF wt THEN "analyzeDiffs" ELSE "done", outcome |-> "none"]

\* handleRepositoryChange up to its first suspension, as a record of the call:
\* observed is the HEAD commit it read, acq the arguments it passed to
\* analyzeNewCommit (<<>>: it did not call it), pc where it is suspended.
HandlerStart(last, h, wt) ==
  IF h = NULL
  THEN [observed |-> h, acq |-> <<>>, pc |-> "done", outcome |-> "none"]
  ELSE IF NewCommitDetected(last, h)
       THEN [observed |-> h, acq |-> <<last, h>>, pc |-> "analyzeNewCommit", outcome |-> "none"]
       ELSE [observed |-> h, acq |-> <<>>,
             pc |-> IF wt THEN "analyzeDiffs" ELSE "done", outcome |-> "none"]

\* lastCommitSha after a handler's synchronous part: `this.lastCommitSha =
\* head.commit` is reached only when analyzeNewCommit is not awaited
WatermarkAtStart(last, h) ==
  IF h # NULL /\ ~NewCommitDetected(last, h) THEN h ELSE last

RECURSIVE StartHandlers(_, _, _, _)
\* the n listeners run one after the other, each a handleRepositoryChange call
StartHandlers(n, last, hs, wt) ==
  IF n = 0 THEN <<last, hs>>
  ELSE StartHandlers(n - 1, WatermarkAtStart(last, head),
                     hs (+) SetToBag({HandlerStart(last, head, wt)}), wt)

\* state.onDidChange fires; wt: repo.state.workingTreeChanges is not empty
Notify(wt) ==
  /\ listeners > 0
  /\ BagCardinality(handlers) + listeners <= MaxHandlers
  /\ LET res == StartHandlers(listeners, lastCommitSha, handlers, wt)
     IN /\ lastCommitSha' = res[1]
        /\ handlers' = res[2]
  /\ latestObserved' = head
  /\ UNCHANGED <<initPending, refreshes, gitApi, repoOpen, head, commits, repository,
                 listeners, timers, exhausted, nonWatcherVars>>

AcquisitionOutcomes == {"parsed", "nochanges", "failed"}

\* as WatermarkAfterAcquisition, were a failed acquisition to skip the update
WatermarkSkippedOnFailure(h, outcome) ==
  IF outcome = "failed" THEN lastCommitSha ELSE h.observed

\* handleRepositoryChange after `await this.analyzeNewCommit(...)`:
\* `this.lastCommitSha = head.commit`
WatermarkAfterAcquisition(h, outcome) == h.observed

\* analyzeNewCommit of a handler h ends (it catches every failure) and the handler
\* resumes; wt: repo.state.workingTreeChanges is not empty
ResumeAnalyzeNewCommit(h, outcome, wt) ==
  /\ BagIn(h, handlers)
  /\ h.pc = "analyzeNewCommit"
  /\ lastCommitSha' = WatermarkAfterAcquisition(h, outcome)
  /\ handlers' = (handlers (-) SetToBag({h})) (+)
                 SetToBag({[h EXCEPT !.pc = IF wt THEN "analyzeDiffs" ELSE "done",
                                     !.outcome = outcome]})
  /\ UNCHANGED <<initPending, refreshes, gitApi, repoOpen, head, commits, repository,
                 listeners, timers, exhausted, latestObserved, nonWatcherVars>>

\* analyzeDiffs of a handler h ends
ResumeAnalyzeDiffs(h) ==
  /\ BagIn(h, handlers)
  /\ h.pc = "analyzeDiffs"
  /\ handlers' = (handlers (-) SetToBag({h})) (+) SetToBag({[h EXCEPT !.pc = "done"]})
  /\ UNCHANGED <<initPending, refreshes, gitApi, repoOpen, head, commits, repository,
                 listeners, lastCommitSha, timers, exhausted, latestObserved, nonWatcherVars>>

(***************************************************************************)
(* Text: a string is a sequence of one-character strings                   *)
(***************************************************************************)

NL == "\n"
DigitChars == <<"0", "1", "2", "3", "4", "5", "6", "7", "8", "9">>
IsDigit(c) == \E i \in 1..10 : DigitChars[i] = c
DigitValue(c) == (CHOOSE i \in 1..10 : DigitChars[i] = c) - 1

\* String.prototype.startsWith
StartsWith(s, prefix) ==
  Len(s) >= Len(prefix) /\ SubSeq(s, 1, Len(prefix)) = prefix

\* String.prototype.substring(n)
Substring(s, n) == SubSeq(s, n + 1, Len(s))

RECURSIVE SplitOn(_, _)
\* String.prototype.split(sep), sep one character
SplitOn(s, sep) ==
  IF \E i \in 1..Len(s) : s[i] = sep
  THEN LET i == CHOOSE k \in 1..Len(s) : s[k] = sep /\ \A j \in 1..(k - 1) : s[j] # sep
       IN <<SubSeq(s, 1, i - 1)>> \o SplitOn(SubSeq(s, i + 1, Len(s)), sep)
  ELSE <<s>>

RECURSIVE DigitRun(_, _)
\* the length of the longest run of digits of s that starts at position p: \d+
DigitRun(s, p) ==
  IF p <= Len(s) /\ IsDigit(s[p]) THEN 1 + DigitRun(s, p + 1) ELSE 0

RECURSIVE ParseInt(_)
\* parseInt of a string of digits
ParseInt(ds) ==
  IF ds = <<>> THEN 0
  ELSE 10 * ParseInt(SubSeq(ds, 1, Len(ds) - 1)) + DigitValue(ds[Len(ds)])

\* s has the literal t at position p
LiteralAt(s, p, t) == p + Len(t) - 1 <= Len(s) /\ SubSeq(s, p, p + Len(t) - 1) = t

\* (\d+)(?:,(\d+))? at position p: <<end, first group, second group>>, the
\* second group <<>> when it takes no part; <<>> when the digits are missing
NumberPairAt(s, p) ==
  LET n1 == DigitRun(s, p)
      q == p + n1
      n2 == IF q <= Len(s) /\ s[q] = "," THEN DigitRun(s, q + 1) ELSE 0
  IN IF n1 = 0 THEN <<>>
     ELSE IF n2 > 0
          THEN <<q + 1 + n2, SubSeq(s, p, q - 1), SubSeq(s, q + 1, q + n2)>>
          ELSE <<q, SubSeq(s, p, q - 1), <<>>>>

\* /@@ -(\d+)(?:,(\d+))? \+(\d+)(?:,(\d+))? @@/ matched at position p: the four
\* groups, or <<>>
HunkHeaderAt(s, p) ==
  IF ~LiteralAt(s, p, <<"@", "@", " ", "-">>) THEN <<>>
  ELSE LET a == NumberPairAt(s, p + 4)
       IN IF a = <<>> \/ ~LiteralAt(s, a[1], <<" ", "+">>) THEN <<>>
          ELSE LET b == NumberPairAt(s, a[1] + 2)
               IN IF b = <<>> \/ ~LiteralAt(s, b[1], <<" ", "@", "@">>) THEN <<>>
                  ELSE <<a[2], a[3], b[2], b[3]>>

\* line.match(/@@ -(\d+)(?:,(\d+))? \+(\d+)(?:,(\d+))? @@/): the groups of the
\* leftmost match (the pattern is not anchored), or <<>>
HunkMatch(s) ==
  IF \E p \in 1..Len(s) : HunkHeaderAt(s, p) # <<>>
  THEN HunkHeaderAt(s, CHOOSE p \in 1..Len(s) :
                          /\ HunkHeaderAt(s, p) # <<>>
                          /\ \A q \in 1..(p - 1) : HunkHeaderAt(s, q) = <<>>)
  ELSE <<>>

\* as CountOrDefault, were a given count not read
CountAlwaysDefault(group) == 1

\* as CountOrDefault, were a count of zero taken as left out
CountZeroAsDefault(group) ==
  IF group = <<>> \/ ParseInt(group) = 0 THEN 1 ELSE ParseInt(group)

\* parseInt(group || '1')
CountOrDefault(group) == IF group = <<>> THEN 1 ELSE ParseInt(group)

(***************************************************************************)
(* GitIntegration.parseDiffText                                            *)
(*                                                                         *)
(* The scan state: parsedDiffs, currentFile (<<>> for null, or <<file>>), *)
(* currentHunk (0 for null, or a reference into heap), oldLineNum,        *)
(* newLineNum.  Hunks are objects: a file's hunks array holds references, *)
(* and the same hunk object can be pushed more than once.                  *)
(***************************************************************************)

S_DiffGit == <<"d", "i", "f", "f", " ", "-", "-", "g", "i", "t">>
S_NewFileMode == <<"n", "e", "w", " ", "f", "i", "l", "e", " ", "m", "o", "d", "e">>
S_DeletedFileMode == <<"d", "e", "l", "e", "t", "e", "d", " ", "f", "i", "l", "e", " ", "m", "o", "d", "e">>
S_Unknown == <<"u", "n", "k", "n", "o", "w", "n">>

\* fileParts[k]?.substring(2), k counted from 0; <<>> when undefined or empty
PathToken(fileParts, k) ==
  IF k + 1 <= Len(fileParts) THEN Substring(fileParts[k + 1], 2) ELSE <<>>

\* fileParts[3]?.substring(2) || fileParts[2]?.substring(2) || 'unknown'
FilePathOf(line) ==
  LET fileParts == SplitOn(line, " ")
  IN IF PathToken(fileParts, 3) # <<>> THEN PathToken(fileParts, 3)
     ELSE IF PathToken(fileParts, 2) # <<>> THEN PathToken(fileParts, 2)
     ELSE S_Unknown

NewFile(filePath) ==
  [filePath |-> filePath, status |-> "modified", hunks |-> <<>>,
   addedLines |-> 0, removedLines |-> 0]

\* currentFile.hunks.push(currentHunk)
PushHunk(file, ref) == [file EXCEPT !.hunks = Append(@, ref)]

\* a line that starts with 'diff --git'
FileHeaderLine(st, line) ==
  LET finalized ==
        IF st.currentFile # <<>>
        THEN [st EXCEPT
                !.parsedDiffs =
                   Append(@, IF st.currentHunk # 0
                             THEN PushHunk(st.currentFile[1], st.currentHunk)
                             ELSE st.currentFile[1]),
                !.currentHunk = 0]
        ELSE st
  IN [finalized EXCEPT !.currentFile = <<NewFile(FilePathOf(line))>>]

\* as StatusLine, were only the first marker of a file to count
StatusLineFirstOnly(st, status) ==
  IF st.currentFile # <<>> /\ st.currentFile[1].status = "modified"
  THEN [st EXCEPT !.currentFile[1].status = status]
  ELSE st

\* a line that starts with 'new file mode' or 'deleted file mode'
StatusLine(st, status) ==
  IF st.currentFile # <<>>
  THEN [st EXCEPT !.currentFile[1].status = status]
  ELSE st

\* a line that starts with '@@'
HunkHeaderLine(st, line) ==
  LET pushed ==
        IF st.currentHunk # 0 /\ st.currentFile # <<>>
        THEN [st EXCEPT !.currentFile[1] = PushHunk(@, st.currentHunk)]
        ELSE st
      hunkMatch == HunkMatch(line)
  IN IF hunkMatch # <<>>
     THEN LET oldStart == ParseInt(hunkMatch[1])
              newStart == ParseInt(hunkMatch[3])
          IN [pushed EXCEPT
                !.heap = Append(@, [oldStart |-> oldStart,
                                    oldCount |-> CountOrDefault(hunkMatch[2]),
                                    newStart |-> newStart,
                                    newCount |-> CountOrDefault(hunkMatch[4]),
                                    lines |-> <<>>]),
                !.currentHunk = Len(pushed.heap) + 1,
                !.oldLineNum = oldStart,
                !.newLineNum = newStart]
     ELSE pushed

\* the kind of a line inside a hunk ("none": the line is ignored)
LineKind(line) ==
  IF StartsWith(line, <<"+">>) /\ ~StartsWith(line, <<"+", "+", "+">>) THEN "add"
  ELSE IF StartsWith(line, <<"-">>) /\ ~StartsWith(line, <<"-", "-", "-">>) THEN "remove"
  ELSE IF StartsWith(line, <<" ">>) THEN "context"
  ELSE "none"

\* the entry pushed to currentHunk.lines
DiffLine(kind, content, oldLineNum, newLineNum) ==
  CASE kind = "add" -> [type |-> "add", content |-> content, newLineNumber |-> newLineNum]
    [] kind = "remove" -> [type |-> "remove", content |-> content, oldLineNumber |-> oldLineNum]
    [] kind = "context" -> [type |-> "context", content |-> content,
                            oldLineNumber |-> oldLineNum, newLineNumber |-> newLineNum]

\* the entries of the given kinds, in order
LinesOfKindIn(ls, kinds) == SelectSeq(ls, LAMBDA l : l.type \in kinds)

\* as NextOldLineNum, were a context line not to advance the old counter
NextOldLineNumContextSkipped(kind, n) == IF kind = "remove" THEN n + 1 ELSE n

\* oldLineNum++ on a remove or context line
NextOldLineNum(kind, n) == IF kind \in {"remove", "context"} THEN n + 1 ELSE n

\* newLineNum++ on an add or context line
NextNewLineNum(kind, n) == IF kind \in {"add", "context"} THEN n + 1 ELSE n

\* any other line: diff content when a hunk and a file are current
ContentLine(st, line) ==
  LET kind == LineKind(line)
  IN IF st.currentHunk # 0 /\ st.currentFile # <<>> /\ kind # "none"
     THEN [st EXCEPT
             !.heap[st.currentHunk].lines =
                Append(@, DiffLine(kind, Substring(line, 1), st.oldLineNum, st.newLineNum)),
             !.currentFile[1].addedLines = IF kind = "add" THEN @ + 1 ELSE @,
             !.currentFile[1].removedLines = IF kind = "remove" THEN @ + 1 ELSE @,
             !.oldLineNum = NextOldLineNum(kind, @),
             !.newLineNum = NextNewLineNum(kind, @)]
     ELSE st

\* one iteration of `for (const line of lines)`
ParseLine(st, line) ==
  IF StartsWith(line, S_DiffGit) THEN FileHeaderLine(st, line)
  ELSE IF StartsWith(line, S_NewFileMode) THEN StatusLine(st, "added")
  ELSE IF StartsWith(line, S_DeletedFileMode) THEN StatusLine(st, "deleted")
  ELSE IF StartsWith(line, <<"@", "@">>) THEN HunkHeaderLine(st, line)
  ELSE ContentLine(st, line)

RECURSIVE ParseLines(_, _, _)
ParseLines(st, lines, i) ==
  IF i > Len(lines) THEN st ELSE ParseLines(ParseLine(st, lines[i]), lines, i + 1)

ScanStart ==
  [parsedDiffs |-> <<>>, currentFile |-> <<>>, currentHunk |-> 0,
   oldLineNum |-> 0, newLineNum |-> 0, heap |-> <<>>]

\* after the loop: the last file and its last hunk
FinalizeScan(st) ==
  IF st.currentFile # <<>>
  THEN [st EXCEPT !.parsedDiffs =
                    Append(@, IF st.currentHunk # 0
                              THEN PushHunk(st.currentFile[1], st.currentHunk)
                              ELSE st.currentFile[1])]
  ELSE st

\* the returned array as a reader sees it: every reference replaced by the hunk
\* object it points to
Resolved(st) ==
  [k \in DOMAIN st.parsedDiffs |->
     [st.parsedDiffs[k] EXCEPT
        !.hunks = [j \in DOMAIN st.parsedDiffs[k].hunks |-> st.heap[st.parsedDiffs[k].hunks[j]]]]]

parseDiffText(diffText) ==
  IF diffText = <<>> THEN <<>>
  ELSE Resolved(FinalizeScan(ParseLines(ScanStart, SplitOn(diffText, NL), 1)))

(***************************************************************************)
(* parseDiffText on bounded inputs                                         *)
(***************************************************************************)

MaxLines == 4

L_HeaderX == <<"d", "i", "f", "f", " ", "-", "-", "g", "i", "t", " ", "a", "/", "x", " ", "b", "/", "x">>
L_NewFile == <<"n", "e", "w", " ", "f", "i", "l", "e", " ", "m", "o", "d", "e", " ", "1", "0", "0", "6", "4", "4">>
L_Deleted == <<"d", "e", "l", "e", "t", "e", "d", " ", "f", "i", "l", "e", " ", "m", "o", "d", "e", " ", "1", "0", "0", "6", "4", "4">>
L_Hunk == <<"@", "@", " ", "-", "1", ",", "2", " ", "+", "3", ",", "2", " ", "@", "@">>
L_HunkDefault == <<"@", "@", " ", "-", "5", " ", "+", "7", " ", "@", "@">>
L_HunkMalformed == <<"@", "@", " ", "b", "a", "d">>
L_Add == <<"+", "a">>
L_Remove == <<"-", "b">>
L_Context == <<" ", "c">>
L_NoNewline == <<"\\", " ", "N", "o", " ", "n", "e", "w", "l", "i", "n", "e">>

\* the lines the input texts are made of
ParseAlphabet ==
  {L_HeaderX, L_NewFile, L_Deleted, L_Hunk, L_HunkDefault, L_HunkMalformed,
   L_Add, L_Remove, L_Context, L_NoNewline}

RECURSIVE JoinLines(_)
\* the text of the given lines, each newline-terminated
JoinLines(ls) ==
  IF ls = <<>> THEN <<>> ELSE ls[1] \o <<NL>> \o JoinLines(Tail(ls))

ParseInputs ==
  {JoinLines(ls) : ls \in UNION {[1..n -> ParseAlphabet] : n \in 0..MaxLines}}

\* Scenario A of the specification: one file, one hunk, four lines
ScenarioA_Lines ==
  <<<<"d", "i", "f", "f", " ", "-", "-", "g", "i", "t", " ", "a", "/", "x", ".", "t", "x", "t", " ", "b", "/", "x", ".", "t", "x", "t">>,
    <<"@", "@", " ", "-", "1", ",", "2", " ", "+", "1", ",", "3", " ", "@", "@">>,
    <<" ", "c", "o", "n", "t", "e", "x", "t">>,
    <<"-", "o", "l", "d">>,
    <<"+", "n", "e", "w", "1">>,
    <<"+", "n", "e", "w", "2">>>>
ScenarioA_Text == JoinLines(ScenarioA_Lines)

\* one file, a hunk with zero old lines, then a hunk with its counts left out
ZeroCount_Lines ==
  <<L_HeaderX,
    <<"@", "@", " ", "-", "0", ",", "0", " ", "+", "1", ",", "2", " ", "@", "@">>,
    L_Add,
    L_Add,
    <<"@", "@", " ", "-", "4", " ", "+", "6", " ", "@", "@", " ", "f", "(", ")">>,
    L_Context,
    L_Remove>>
ZeroCount_Text == JoinLines(ZeroCount_Lines)

\* a file header whose path holds a space, and one with a single path token
L_HeaderSpace ==
  <<"d", "i", "f", "f", " ", "-", "-", "g", "i", "t", " ",
    "a", "/", "m", "y", " ", "f", ".", "t", "s", " ",
    "b", "/", "m", "y", " ", "f", ".", "t", "s">>
L_HeaderSingle == <<"d", "i", "f", "f", " ", "-", "-", "g", "i", "t", " ", "a", "/", "y", ".", "t", "s">>
HeaderTexts == {JoinLines(<<L_HeaderSpace, L_Hunk, L_Add>>), JoinLines(<<L_HeaderSingle>>)}

\* the texts parseDiffText is called with
ParseTexts == ParseInputs \cup {ScenarioA_Text, ZeroCount_Text} \cup HeaderTexts

WatcherIdle ==
  /\ initPending = 0 /\ refreshes = 0 /\ gitApi = FALSE /\ repoOpen = FALSE
  /\ head = NULL /\ commits = 0 /\ repository = FALSE /\ listeners = 0
  /\ lastCommitSha = NULL /\ timers = EmptyBag /\ exhausted = {} /\ handlers = EmptyBag
  /\ latestObserved = NULL

\* a call parseDiffText(input)
ParseStep ==
  /\ ppc = "ready"
  /\ parsed' = parseDiffText(input)
  /\ ppc' = "done"
  /\ UNCHANGED <<source, input, nonParserVars>>

ParseInit ==
  /\ WatcherIdle
  /\ AcquireIdle
  /\ CommentsIdle
  /\ ReviewIdle
  /\ DebounceIdle
  /\ source = <<>>
  /\ input \in ParseTexts
  /\ parsed = <<>>
  /\ ppc = "ready"

ParseNext == ParseStep

SpecParse == ParseInit /\ [][ParseNext]_vars

(***************************************************************************)
(* Round trip: well-formed file records, serialized to unified-diff text   *)
(***************************************************************************)

MaxItems == 5

RECURSIVE ToDigits(_)
\* a number in decimal
ToDigits(n) ==
  IF n < 10 THEN <<DigitChars[n + 1]>>
  ELSE ToDigits(n \div 10) \o <<DigitChars[(n % 10) + 1]>>

\* a well-formed change set is built from items: a file header, a hunk header
\* (its start lines), a line of the current hunk
FileItems ==
  {[item |-> "file", filePath |-> fp, status |-> st] :
     fp \in {<<"x">>, <<"y", "y">>}, st \in {"modified", "added", "deleted"}}
HunkItems ==
  {[item |-> "hunk", oldStart |-> 1, newStart |-> 1],
   [item |-> "hunk", oldStart |-> 4, newStart |-> 6]}
LineItems ==
  {[item |-> "line", type |-> "context", content |-> <<"a">>],
   [item |-> "line", type |-> "add", content |-> <<"a">>],
   [item |-> "line", type |-> "remove", content |-> <<"a">>],
   [item |-> "line", type |-> "add", content |-> <<"+", "+">>],
   [item |-> "line", type |-> "remove", content |-> <<"-", "-">>]}
Items == FileItems \cup HunkItems \cup LineItems

\* a file comes first, a hunk belongs to a file, a line to a hunk
ItemsInOrder(its) ==
  /\ its # <<>> => its[1].item = "file"
  /\ \A i \in 2..Len(its) :
       its[i].item = "line" => its[i - 1].item \in {"hunk", "line"}

\* the line record of a well-formed hunk: numbered from the hunk's starts
SourceLine(hunk, it) ==
  DiffLine(it.type, it.content,
           hunk.oldStart + Len(LinesOfKindIn(hunk.lines, {"remove", "context"})),
           hunk.newStart + Len(LinesOfKindIn(hunk.lines, {"add", "context"})))

\* the file records the items describe; counts and counters are those of a
\* well-formed hunk and file
AddItem(files, it) ==
  LET f == Len(files)
      h == IF f = 0 THEN 0 ELSE Len(files[f].hunks)
  IN CASE it.item = "file" ->
            Append(files, [NewFile(it.filePath) EXCEPT !.status = it.status])
       [] it.item = "hunk" ->
            [files EXCEPT ![f].hunks =
               Append(@, [oldStart |-> it.oldStart, oldCount |-> 0,
                          newStart |-> it.newStart, newCount |-> 0, lines |-> <<>>])]
       [] it.item = "line" ->
            [files EXCEPT
               ![f].hunks[h].lines = Append(@, SourceLine(files[f].hunks[h], it)),
               ![f].hunks[h].oldCount = IF it.type \in {"remove", "context"} THEN @ + 1 ELSE @,
               ![f].hunks[h].newCount = IF it.type \in {"add", "context"} THEN @ + 1 ELSE @,
               ![f].addedLines = IF it.type = "add" THEN @ + 1 ELSE @,
               ![f].removedLines = IF it.type = "remove" THEN @ + 1 ELSE @]

RECURSIVE BuildFiles(_, _)
BuildFiles(files, its) ==
  IF its = <<>> THEN files ELSE BuildFiles(AddItem(files, its[1]), Tail(its))

WellFormedSources ==
  {BuildFiles(<<>>, its) :
     its \in {q \in UNION {[1..n -> Items] : n \in 0..MaxItems} : ItemsInOrder(q)}}

\* start[,count]: the count is left out when it is 1
SerializeRange(start, count) ==
  ToDigits(start) \o (IF count = 1 THEN <<>> ELSE <<",">> \o ToDigits(count))

SerializeLine(l) ==
  (CASE l.type = "add" -> <<"+">>
     [] l.type = "remove" -> <<"-">>
     [] l.type = "context" -> <<" ">>) \o l.content \o <<NL>>

RECURSIVE SerializeLines(_)
SerializeLines(ls) ==
  IF ls = <<>> THEN <<>> ELSE SerializeLine(ls[1]) \o SerializeLines(Tail(ls))

SerializeHunk(hunk) ==
  <<"@", "@", " ", "-">> \o SerializeRange(hunk.oldStart, hunk.oldCount)
    \o <<" ", "+">> \o SerializeRange(hunk.newStart, hunk.newCount)
    \o <<" ", "@", "@", NL>> \o SerializeLines(hunk.lines)

RECURSIVE SerializeHunks(_)
SerializeHunks(hs) ==
  IF hs = <<>> THEN <<>> ELSE SerializeHunk(hs[1]) \o SerializeHunks(Tail(hs))

SerializeFile(file) ==
  S_DiffGit \o <<" ", "a", "/">> \o file.filePath \o <<" ", "b", "/">> \o file.filePath \o <<NL>>
    \o (CASE file.status = "added" -> S_NewFileMode \o <<" ", "1", "0", "0", "6", "4", "4">> \o <<NL>>
          [] file.status = "deleted" -> S_DeletedFileMode \o <<" ", "1", "0", "0", "6", "4", "4">> \o <<NL>>
          [] file.status = "modified" -> <<>>)
    \o <<"-", "-", "-", " ", "a", "/">> \o file.filePath \o <<NL>>
    \o <<"+", "+", "+", " ", "b", "/">> \o file.filePath \o <<NL>>
    \o SerializeHunks(file.hunks)

RECURSIVE Serialize(_)
\* the unified-diff text of a sequence of file records
Serialize(files) ==
  IF files = <<>> THEN <<>> ELSE SerializeFile(files[1]) \o Serialize(Tail(files))

RoundTripInit ==
  /\ WatcherIdle
  /\ AcquireIdle
  /\ CommentsIdle
  /\ ReviewIdle
  /\ DebounceIdle
  /\ source \in WellFormedSources
  /\ input = Serialize(source)
  /\ parsed = <<>>
  /\ ppc = "ready"

SpecRoundTrip == RoundTripInit /\ [][ParseNext]_vars

(***************************************************************************)
(* GitIntegration.analyzeNewCommit, one call                               *)
(*                                                                         *)
(* The collaborator's answers are fixed when the call starts: the outcome  *)
(* of repo.diffBetween(previousCommit, newCommit) and, for every change of *)
(* the list, the outcome of the per-file request.                          *)
(***************************************************************************)

MaxChanged == 3

\* per-file diff texts: a modified file with one hunk, a new file
D_FileX == L_HeaderX \o <<NL>> \o L_Hunk \o <<NL>> \o L_Add
D_FileNew == L_HeaderX \o <<NL>> \o L_NewFile

\* the outcomes of `await repo.diffBetween(previousCommit, newCommit, path)`:
\* the request throws, or returns a text (the empty text included)
FileDiffAnswers ==
  {[ok |-> FALSE, text |-> <<>>]} \cup
  {[ok |-> TRUE, text |-> t] : t \in {<<>>, D_FileX, D_FileNew}}

\* the outcomes of `await repo.diffBetween(previousCommit, newCommit)`: the
\* query throws, returns nothing, or returns a list of changes
ListAnswers ==
  {[result |-> r, changes |-> <<>>] : r \in {"throws", "null"}} \cup
  {[result |-> "list", changes |-> c] :
     c \in UNION {[1..n -> FileDiffAnswers] : n \in 0..MaxChanged}}

\* !changedFiles || changedFiles.length === 0
NoFilesChanged(answer) == answer.result = "null" \/ Len(answer.changes) = 0

\* fullDiffText += fileDiff + '\n'
AppendFileDiff(text, fileDiff) == text \o fileDiff \o <<NL>>

\* as AfterFileDiff, were a failed request to discard the text built so far
AfterFileDiffResetOnFailure(text, answer) ==
  IF answer.ok THEN AppendFileDiff(text, answer.text) ELSE <<>>

\* one iteration of `for (const change of changedFiles)`: the inner try/catch
AfterFileDiff(text, answer) ==
  IF answer.ok THEN AppendFileDiff(text, answer.text) ELSE text

\* the changed-file list query returns or throws
AcquireList ==
  /\ apc = "list"
  /\ IF changedFiles.result = "throws"
     THEN /\ apc' = "done"
          /\ errorMessages' = errorMessages + 1
          /\ UNCHANGED fileIndex
     ELSE IF NoFilesChanged(changedFiles)
          THEN apc' = "done" /\ UNCHANGED <<fileIndex, errorMessages>>
          ELSE apc' = "files" /\ fileIndex' = 1 /\ UNCHANGED errorMessages
  /\ UNCHANGED <<changedFiles, fullDiffText, parserCalls, sidebar, nonAcquireVars>>

\* the per-file request of the change the loop is at returns or throws
AcquireFileDiff ==
  /\ apc = "files"
  /\ fileIndex <= Len(changedFiles.changes)
  /\ fullDiffText' = AfterFileDiff(fullDiffText, changedFiles.changes[fileIndex])
  /\ fileIndex' = fileIndex + 1
  /\ UNCHANGED <<apc, changedFiles, parserCalls, sidebar, errorMessages,
                 nonAcquireVars>>

\* after the loop: `if (!fullDiffText) return`, parseDiffText,
\* `if (parsedDiffs.length === 0) return`, sendCommitAnalysisToSidebar
AcquireParse ==
  /\ apc = "files"
  /\ fileIndex > Len(changedFiles.changes)
  /\ apc' = "done"
  /\ IF fullDiffText = <<>>
     THEN UNCHANGED <<parserCalls, sidebar>>
     ELSE LET parsedDiffs == parseDiffText(fullDiffText)
          IN /\ parserCalls' = Append(parserCalls, fullDiffText)
             /\ sidebar' = IF Len(parsedDiffs) = 0 THEN sidebar
                           ELSE Append(sidebar, [type |-> "commit", diffs |-> parsedDiffs])
  /\ UNCHANGED <<changedFiles, fileIndex, fullDiffText, errorMessages,
                 nonAcquireVars>>

AcquireInit ==
  /\ WatcherIdle
  /\ CommentsIdle
  /\ ReviewIdle
  /\ DebounceIdle
  /\ source = <<>> /\ input = <<>> /\ parsed = <<>> /\ ppc = "idle"
  /\ apc = "list"
  /\ changedFiles \in ListAnswers
  /\ fileIndex = 0
  /\ fullDiffText = <<>>
  /\ parserCalls = <<>>
  /\ sidebar = <<>>
  /\ errorMessages = 0

AcquireNext == AcquireList \/ AcquireFileDiff \/ AcquireParse

SpecAcquire == AcquireInit /\ [][AcquireNext]_vars

(***************************************************************************)
(* CommentManager                                                          *)
(*                                                                         *)
(* The workspace holds one file; a review names it or a file that does not *)
(* exist.  A review's suggestions are drawn when the loop of               *)
(* displayReviewsAsComments reaches them.  Thread ids are fresh            *)
(* (`codeowl_${Date.now()}_${random}`).                                    *)
(***************************************************************************)

MaxFileLines == 3
MaxReviews == 1
MaxSuggestions == 2
MaxApplies == 2
MaxThreads == 2
MaxAiCalls == 2

\* new vscode.Range(startLine, 0, endLine, 1024): the end column
MaxColumn == 1024

FoundPath == "src/a.ts"
MissingPath == "src/missing.ts"
WorkspaceFiles == {FoundPath}

\* document.lineCount of a workspace file
LineCount(uri) == MaxFileLines

Suggestion(fp, startLine, endLine, cc) ==
  [filePath |-> fp, startLine |-> startLine, endLine |-> endLine,
   suggestion |-> "simplify", codeChange |-> cc]

\* suggestions with 1-based lines: inside the file with and without a
\* replacement, beyond its end, and for a file that does not exist
Suggestions ==
  {Suggestion(FoundPath, 2, 3, "return a;"),
   Suggestion(FoundPath, 2, 3, NULL),
   Suggestion(FoundPath, MaxFileLines + 2, MaxFileLines + 3, ""),
   Suggestion(MissingPath, 2, 3, "return a;")}

\* vscode.workspace.findFiles(`**/${filePath}`, '**/node_modules/**', 1)
FindFiles(filePath) == IF filePath \in WorkspaceFiles THEN <<filePath>> ELSE <<>>

\* Math.max(0, n)
MaxZero(n) == IF n < 0 THEN 0 ELSE n

\* new vscode.Range(l1, c1, l2, c2): start is the smaller position
Range(l1, c1, l2, c2) ==
  IF l1 < l2 \/ (l1 = l2 /\ c1 <= c2)
  THEN [start |-> [line |-> l1, character |-> c1], end |-> [line |-> l2, character |-> c2]]
  ELSE [start |-> [line |-> l2, character |-> c2], end |-> [line |-> l1, character |-> c1]]

\* createAdvancedCommentThread: the range of the thread
SuggestionRange(suggestion) ==
  Range(MaxZero(suggestion.startLine - 1), 0, MaxZero(suggestion.endLine - 1), MaxColumn)

\* as CreatedThread, were the result of findFiles not tested
CreatedThreadUnchecked(fileUris, suggestion) ==
  <<[uri |-> IF fileUris = <<>> THEN suggestion.filePath ELSE fileUris[1],
     range |-> SuggestionRange(suggestion)]>>

\* createAdvancedCommentThread: the thread created (<<>>: none, file not found)
CreatedThread(fileUris, suggestion) ==
  IF Len(fileUris) = 0 THEN <<>>
  ELSE <<[uri |-> fileUris[1], range |-> SuggestionRange(suggestion)]>>

\* the threadData entry of a new thread
NewThreadData(suggestion) ==
  [suggestion |-> suggestion,
   conversation |-> <<[author |-> "CodeOwl AI", message |-> suggestion.suggestion]>>]

\* as MapDelete, were the entries set after the key deleted with it
MapDeleteFrom(map, key) == [k \in {j \in DOMAIN map : j < key} |-> map[k]]

\* Map.set, Map.delete
MapSet(map, key, value) == [k \in DOMAIN map \cup {key} |-> IF k = key THEN value ELSE map[k]]
MapDelete(map, key) == [k \in DOMAIN map \ {key} |-> map[k]]

Notice(id, text) == [id |-> id, text |-> text]

\* as NewThreadId, were the id of the first thread given again
NewThreadIdReused(next) == 1

\* `codeowl_${Date.now()}_${Math.random()...}`: an id not given before
NewThreadId(next) == next

\* as Cleared, were the thread created last kept
ClearedButLast(map) ==
  [k \in {j \in DOMAIN map : \A i \in DOMAIN map : i <= j} |-> map[k]]

\* Map.clear
Cleared(map) == <<>>

\* clearAllComments: console.log(`[CodeOwl] Clearing ${this.threads.size} ...`)
ClearLog(size) ==
  Notice(0, "Clearing " \o ToString(size) \o " AI review comment threads...")

\* Map.size
Size(map) == Cardinality(DOMAIN map)

\* displayReviewsAsComments(review), review.suggestions of length n:
\* clearAllComments, then the loop up to the first findFiles
DisplayReviewsAsComments(n) ==
  /\ reviews' = reviews + 1
  /\ threads' = Cleared(threads)
  /\ threadData' = Cleared(threadData)
  /\ IF n = 0
     THEN /\ notices' = {ClearLog(Size(threads)),
                         Notice(0, "No suggestions found. Looks good!")}
          /\ UNCHANGED displays
     ELSE /\ \E sg \in Suggestions :
               displays' = displays \cup
                 {[call |-> reviews + 1, total |-> n, remaining |-> n, suggestion |-> sg,
                   created |-> {}]}
          /\ notices' = {ClearLog(Size(threads))}
  /\ edits' = {}
  /\ UNCHANGED <<nextThreadId, applyCalls, applying, aiVars, nonCommentVars>>

\* the ids of the threads the call d has created when its file search ends
CreatedBy(d) ==
  IF CreatedThread(FindFiles(d.suggestion.filePath), d.suggestion) = <<>>
  THEN d.created
  ELSE d.created \cup {NewThreadId(nextThreadId)}

\* createAdvancedCommentThread resumes from findFiles; the loop goes on to the
\* next suggestion or displayReviewsAsComments ends; a call's record carries
\* the ids of the threads it has created
ResumeFindFiles(d) ==
  LET created == CreatedThread(FindFiles(d.suggestion.filePath), d.suggestion)
  IN /\ d \in displays
     /\ IF created = <<>>
        THEN UNCHANGED <<threads, threadData, nextThreadId>>
        ELSE /\ nextThreadId <= MaxThreads
             /\ threads' = MapSet(threads, NewThreadId(nextThreadId), created[1])
             /\ threadData' = MapSet(threadData, NewThreadId(nextThreadId),
                                     NewThreadData(d.suggestion))
             /\ nextThreadId' = nextThreadId + 1
     /\ IF d.remaining = 1
        THEN /\ displays' = displays \ {d}
             /\ notices' = {Notice(0, "Added review comment(s)")}
        ELSE /\ \E sg \in Suggestions :
                  displays' = (displays \ {d}) \cup
                    {[d EXCEPT !.remaining = @ - 1, !.suggestion = sg,
                               !.created = CreatedBy(d)]}
             /\ notices' = {}
     /\ edits' = {}
     /\ UNCHANGED <<reviews, applyCalls, applying, aiVars, nonCommentVars>>

\* as CanApply, were the replacement not asked for
CanApplyWithoutChange(ths, data, threadId) ==
  threadId \in DOMAIN data /\ threadId \in DOMAIN ths

\* applySuggestion: threadData && thread && threadData.suggestion.codeChange
\* (thread.range is always set)
CanApply(ths, data, threadId) ==
  /\ threadId \in DOMAIN data
  /\ threadId \in DOMAIN ths
  /\ data[threadId].suggestion.codeChange # NULL
  /\ data[threadId].suggestion.codeChange # ""

\* applySuggestion(threadId) up to `await vscode.workspace.applyEdit(edit)`
ApplySuggestion(threadId) ==
  /\ applyCalls < MaxApplies
  /\ applyCalls' = applyCalls + 1
  /\ IF CanApply(threads, threadData, threadId)
     THEN /\ applying' = applying \cup
               {[call |-> applyCalls + 1, threadId |-> threadId,
                 uri |-> threads[threadId].uri, range |-> threads[threadId].range,
                 newText |-> threadData[threadId].suggestion.codeChange]}
          /\ notices' = {}
     ELSE /\ notices' = {Notice(threadId, "No code change available to apply.")}
          /\ UNCHANGED applying
  /\ edits' = {}
  /\ UNCHANGED <<threads, threadData, nextThreadId, reviews, displays,
                 aiVars, nonCommentVars>>

EditOutcomes == {"applied", "rejected", "throws"}

\* as RemovedAfterEdit, were the result of applyEdit not tested
RemovedAfterAnyEdit(outcome) == outcome # "throws"

\* as RemovedAfterEdit, were an exception of applyEdit taken for success
RemovedAfterEditOrThrow(outcome) == outcome \in {"applied", "throws"}

\* applySuggestion: `if (success)`
RemovedAfterEdit(outcome) == outcome = "applied"

\* applySuggestion resumes from applyEdit
ResumeApplyEdit(a, outcome) ==
  /\ a \in applying
  /\ applying' = applying \ {a}
  /\ edits' = {[threadId |-> a.threadId, uri |-> a.uri, range |-> a.range,
               newText |-> a.newText, outcome |-> outcome]}
  /\ IF RemovedAfterEdit(outcome)
     THEN /\ threads' = MapDelete(threads, a.threadId)
          /\ threadData' = MapDelete(threadData, a.threadId)
          /\ notices' = {Notice(a.threadId, "Code suggestion applied successfully!")}
     ELSE /\ notices' =
               {Notice(a.threadId, IF outcome = "rejected"
                                   THEN "Failed to apply code suggestion."
                                   ELSE "Error applying code suggestion.")}
          /\ UNCHANGED <<threads, threadData>>
  /\ UNCHANGED <<nextThreadId, reviews, displays, applyCalls, aiVars, nonCommentVars>>

\* as Understood, were the thread's data kept
UnderstoodDataKept(threadId) ==
  /\ IF threadId \in DOMAIN threads
     THEN /\ threads' = MapDelete(threads, threadId)
          /\ notices' = {Notice(threadId, "Suggestion marked as understood")}
     ELSE /\ UNCHANGED threads
          /\ notices' = {}
  /\ edits' = {}
  /\ UNCHANGED <<threadData, nextThreadId, reviews, displays, applyCalls, applying,
                 aiCalls, asking, nonCommentVars>>

\* markAsUnderstood(threadId): `if (thread)`, nothing otherwise
Understood(threadId) ==
  /\ IF threadId \in DOMAIN threads
     THEN /\ threads' = MapDelete(threads, threadId)
          /\ threadData' = MapDelete(threadData, threadId)
          /\ notices' = {Notice(threadId, "Suggestion marked as understood")}
     ELSE /\ UNCHANGED <<threads, threadData>>
          /\ notices' = {}
  /\ edits' = {}
  /\ UNCHANGED <<nextThreadId, reviews, displays, applyCalls, applying,
                 aiCalls, asking, nonCommentVars>>

\* markAsUnderstood(threadId), called by the command
MarkAsUnderstood(threadId) == Understood(threadId) /\ UNCHANGED removals

\* clearAllComments(), called by dispose()
ClearAllComments ==
  /\ threads' = Cleared(threads)
  /\ threadData' = Cleared(threadData)
  /\ notices' = {ClearLog(Size(threads))}
  /\ edits' = {}
  /\ UNCHANGED <<nextThreadId, reviews, displays, applyCalls, applying,
                 aiVars, nonCommentVars>>

\* `!threadData || !thread`
Unknown(ths, data, threadId) ==
  threadId \notin DOMAIN data \/ threadId \notin DOMAIN ths

\* fixWithAI(threadId) up to `await this.llmService.generateComprehensiveFix`
\* (the await of openTextDocument before it is caught and changes nothing)
FixWithAI(threadId) ==
  /\ IF Unknown(threads, threadData, threadId)
     THEN /\ notices' = {Notice(threadId, "Unable to process AI fix request.")}
          /\ UNCHANGED <<aiCalls, asking>>
     ELSE /\ aiCalls < MaxAiCalls
          /\ aiCalls' = aiCalls + 1
          /\ asking' = asking \cup
               {[call |-> aiCalls + 1, kind |-> "fix", threadId |-> threadId]}
          /\ notices' =
               {Notice(threadId, "CodeOwl is generating a comprehensive fix...")}
  /\ edits' = {}
  /\ UNCHANGED <<threads, threadData, nextThreadId, reviews, displays, applyCalls,
                 applying, removals, nonCommentVars>>

\* what generateComprehensiveFix answers
FixAnswers ==
  {[result |-> "success", codeChange |-> "return b;"],
   [result |-> "success", codeChange |-> NULL],
   [result |-> "failure", codeChange |-> NULL],
   [result |-> "throws", codeChange |-> NULL]}

\* fixWithAI: `if (response.codeChange) threadData.suggestion.codeChange = ...`
SuggestionAfterFix(suggestion, response) ==
  IF response.result = "success" /\ response.codeChange \notin {NULL, ""}
  THEN [suggestion EXCEPT !.codeChange = response.codeChange]
  ELSE suggestion

\* fixWithAI resumes from generateComprehensiveFix; it holds the threadData
\* entry it read at its start, which is the entry of the map while the id is
\* a key of it
ResumeFix(q, response) ==
  /\ q \in asking
  /\ q.kind = "fix"
  /\ asking' = asking \ {q}
  /\ threadData' =
       IF q.threadId \in DOMAIN threadData
       THEN [threadData EXCEPT ![q.threadId].suggestion = SuggestionAfterFix(@, response)]
       ELSE threadData
  /\ notices' = IF response.result = "throws"
                THEN {Notice(q.threadId, "Error generating AI fix.")}
                ELSE {}
  /\ edits' = {}
  /\ UNCHANGED <<threads, nextThreadId, reviews, displays, applyCalls, applying,
                 aiCalls, removals, nonCommentVars>>

ReplyText == "why?"
AnswerText == "it is shorter"

\* handleUserReply(reply), handleUserReplyFromComment(threadId, replyText) up to
\* `await this.getAIConversationResponse`
HandleUserReply(threadId) ==
  /\ IF Unknown(threads, threadData, threadId)
     THEN UNCHANGED <<threadData, aiCalls, asking>>
     ELSE /\ aiCalls < MaxAiCalls
          /\ aiCalls' = aiCalls + 1
          /\ threadData' =
               [threadData EXCEPT ![threadId].conversation =
                  Append(@, [author |-> "User", message |-> ReplyText])]
          /\ asking' = asking \cup
               {[call |-> aiCalls + 1, kind |-> "reply", threadId |-> threadId]}
  /\ notices' = {}
  /\ edits' = {}
  /\ UNCHANGED <<threads, nextThreadId, reviews, displays, applyCalls, applying,
                 removals, nonCommentVars>>

\* what llmService.handleConversationReply answers
ConversationAnswers ==
  {[result |-> "success", shouldRemove |-> TRUE],
   [result |-> "success", shouldRemove |-> FALSE],
   [result |-> "failure", shouldRemove |-> TRUE],
   [result |-> "throws", shouldRemove |-> FALSE]}

\* getAIConversationResponse
GetAIConversationResponse(response) ==
  IF response.result = "success"
  THEN [message |-> AnswerText, shouldRemove |-> response.shouldRemove]
  ELSE IF response.result = "failure"
  THEN [message |-> AnswerText, shouldRemove |-> FALSE]
  ELSE [message |-> "Error processing your message. Please try again.",
        shouldRemove |-> FALSE]

\* the reply handlers resume from getAIConversationResponse
ResumeReply(q, response) ==
  LET aiResponse == GetAIConversationResponse(response)
  IN /\ q \in asking
     /\ q.kind = "reply"
     /\ asking' = asking \ {q}
     /\ IF aiResponse.shouldRemove
        THEN /\ removals' = removals \cup {[call |-> q.call, threadId |-> q.threadId]}
             /\ UNCHANGED threadData
        ELSE /\ threadData' =
                  IF q.threadId \in DOMAIN threadData
                  THEN [threadData EXCEPT ![q.threadId].conversation =
                          Append(@, [author |-> "CodeOwl AI",
                                     message |-> aiResponse.message])]
                  ELSE threadData
             /\ UNCHANGED removals
     /\ notices' = {}
     /\ edits' = {}
     /\ UNCHANGED <<threads, nextThreadId, reviews, displays, applyCalls, applying,
                    aiCalls, nonCommentVars>>

\* setTimeout(() => this.markAsUnderstood(threadId), 2000) fires
RemovalTimer(t) ==
  /\ t \in removals
  /\ removals' = removals \ {t}
  /\ Understood(t.threadId)

\* the ids of the threads created so far
ThreadIds == 1..(nextThreadId - 1)

ReviewArrives ==
  \E n \in 0..MaxSuggestions : reviews < MaxReviews /\ DisplayReviewsAsComments(n)

FileSearchEnds == \E d \in displays : ResumeFindFiles(d)

ApplyCommand == \E id \in ThreadIds : ApplySuggestion(id)

EditEnds == \E a \in applying, o \in EditOutcomes : ResumeApplyEdit(a, o)

UnderstoodCommand == \E id \in ThreadIds : MarkAsUnderstood(id)

Disposal == ClearAllComments

FixCommand == \E id \in ThreadIds : FixWithAI(id)

FixEnds == \E q \in asking, r \in FixAnswers : ResumeFix(q, r)

ReplyArrives == \E id \in ThreadIds : HandleUserReply(id)

ReplyEnds == \E q \in asking, r \in ConversationAnswers : ResumeReply(q, r)

RemovalTimerFires == \E t \in removals : RemovalTimer(t)

CommentsInit ==
  /\ WatcherIdle
  /\ AcquireIdle
  /\ source = <<>> /\ input = <<>> /\ parsed = <<>> /\ ppc = "idle"
  /\ CommentsIdle
  /\ ReviewIdle
  /\ DebounceIdle

CommentsNext ==
  \/ ReviewArrives
  \/ FileSearchEnds
  \/ ApplyCommand
  \/ EditEnds
  \/ UnderstoodCommand
  \/ Disposal
  \/ FixCommand
  \/ FixEnds
  \/ ReplyArrives
  \/ ReplyEnds
  \/ RemovalTimerFires

SpecComments == CommentsInit /\ [][CommentsNext]_vars

(***************************************************************************)
(* Reviews in flight together: the sidebar's 'startWorkingTreeReview' and  *)
(* 'startCommitReview' handlers each await displayReviewsAsComments, and   *)
(* a second message is handled while the first handler is suspended.       *)
(***************************************************************************)

MaxOverlappingReviews == 2

\* a review handler reaches displayReviewsAsComments(review)
OverlappingReviewArrives ==
  \E n \in 0..MaxSuggestions :
    reviews < MaxOverlappingReviews /\ DisplayReviewsAsComments(n)

DisplaysNext ==
  \/ OverlappingReviewArrives
  \/ FileSearchEnds
  \/ UnderstoodCommand

SpecDisplays == CommentsInit /\ [][DisplaysNext]_vars

ParserIdle == source = <<>> /\ input = <<>> /\ parsed = <<>> /\ ppc = "idle"

\* new GitIntegration(): initializeGit has run up to activate()
Init ==
  /\ initPending = 1
  /\ refreshes = 0
  /\ gitApi = FALSE
  /\ repoOpen \in BOOLEAN
  /\ head \in {NULL, "r1"}
  /\ commits = 0
  /\ repository = FALSE
  /\ listeners = 0
  /\ lastCommitSha = NULL
  /\ timers = EmptyBag
  /\ exhausted = {}
  /\ handlers = EmptyBag
  /\ latestObserved = NULL
  /\ ParserIdle
  /\ AcquireIdle
  /\ CommentsIdle
  /\ ReviewIdle
  /\ DebounceIdle

\* a pending retry of findAndSetupRepository fires
RetryTimerFires == \E t \in BagToSet(timers) : FireRetry(t)

\* HEAD moves to another revision, or to none (an unborn branch)
RevisionChanges == \E r \in Revisions \cup {NULL} : Commit(r)

RepositoryStateChanged == \E wt \in BOOLEAN : Notify(wt)

AcquisitionEnds ==
  \E h \in BagToSet(handlers), o \in AcquisitionOutcomes, wt \in BOOLEAN :
    ResumeAnalyzeNewCommit(h, o, wt)

WorkingTreeAnalysisEnds == \E h \in BagToSet(handlers) : ResumeAnalyzeDiffs(h)

Next ==
  \/ ResumeInitializeGit
  \/ RefreshGitDetection
  \/ OpenRepository
  \/ RetryTimerFires
  \/ RevisionChanges
  \/ RepositoryStateChanged
  \/ AcquisitionEnds
  \/ WorkingTreeAnalysisEnds

Spec == Init /\ [][Next]_vars


(***************************************************************************)
(* CommitWatcher and repository discovery: properties                      *)
(***************************************************************************)

RECURSIVE Copies(_, _)
\* the number of elements of bag B in the set S of its elements
Copies(B, S) ==
  IF S = {} THEN 0
  ELSE LET x == CHOOSE y \in S : TRUE IN CopiesIn(x, B) + Copies(B, S \ {x})

\* analyzeNewCommit calls started with the arguments (a, b)
AcquisitionsFor(B, a, b) == Copies(B, {h \in BagToSet(B) : h.acq = <<a, b>>})

\* analyzeNewCommit calls started
Acquisitions(B) == Copies(B, {h \in BagToSet(B) : h.acq # <<>>})

\* analyzeNewCommit calls not yet ended
InFlight(B) == Copies(B, {h \in BagToSet(B) : h.pc = "analyzeNewCommit"})

\* commit analyses sent to the sidebar
AnalysesSent(B) == Copies(B, {h \in BagToSet(B) : h.outcome = "parsed"})

AllHandlersDone == \A h \in BagToSet(handlers) : h.pc = "done"

\* C1: after a single change of the revision, at most one acquisition has been
\* started for any pair of revisions, whatever the notifications were.
C1_OneAcquisitionPerTransition ==
  commits <= 1 => \A a \in Revisions, b \in Revisions : AcquisitionsFor(handlers, a, b) <= 1

\* C2: with every earlier handler completed and lastRevision = r1, a notification
\* that observes r1 starts no acquisition, and one that observes r2 # r1 starts
\* exactly one acquisition, for (r1, r2).
C2_ScenarioD ==
  [][(/\ AllHandlersDone
      /\ lastCommitSha # NULL
      /\ head # NULL
      /\ BagCardinality(handlers') > BagCardinality(handlers))
     => LET r1 == lastCommitSha
            cur == head
        IN IF cur = r1
           THEN Acquisitions(handlers') = Acquisitions(handlers)
           ELSE /\ Acquisitions(handlers') = Acquisitions(handlers) + 1
                /\ AcquisitionsFor(handlers', r1, cur) = AcquisitionsFor(handlers, r1, cur) + 1]_vars

\* C3: at most one acquisition is in flight.
C3_AtMostOneInFlight == InFlight(handlers) <= 1

\* C4: while no revision has been recorded no acquisition has been started, and
\* the step that records the first revision records the repository's current
\* revision, starts no acquisition and sends no commit analysis.
C4_FirstObservation ==
  /\ [](lastCommitSha = NULL => Acquisitions(handlers) = 0 /\ AnalysesSent(handlers) = 0)
  /\ [][(lastCommitSha = NULL /\ lastCommitSha' # NULL)
        => /\ lastCommitSha' = head
           /\ Acquisitions(handlers') = 0
           /\ AnalysesSent(handlers') = 0]_vars

\* C4 witness: a handler made the first observation (listener setup saw no
\* commit): the revision is recorded and nothing was acquired.
C4_Witness ==
  /\ lastCommitSha = "r2" /\ head = "r2" /\ commits = 1
  /\ \E h \in BagToSet(handlers) : h.observed = "r2" /\ h.acq = <<>>
  /\ Acquisitions(handlers) = 0

\* C5: the step in which a handler's acquisition ends, whatever its outcome,
\* sets lastRevision to the revision that handler observed.
C5_WatermarkAdvances ==
  [][\A h \in BagToSet(handlers) :
       (h.pc = "analyzeNewCommit" /\ CopiesIn(h, handlers') < CopiesIn(h, handlers))
       => /\ lastCommitSha' = h.observed
          /\ lastCommitSha' # h.acq[1]]_vars

\* C5 witness: an acquisition that failed has ended and lastRevision is the
\* revision its handler observed.
C5_Witness ==
  \E h \in BagToSet(handlers) :
    /\ h.outcome = "failed" /\ h.pc = "done"
    /\ h.acq = <<"r1", "r2">> /\ lastCommitSha = "r2"
    /\ BagCardinality(handlers) = 1

\* a pending retry fires in this step
RetryFires == \E t \in BagToSet(timers) : CopiesIn(t, timers') < CopiesIn(t, timers)

\* C6: once a repository has been found, a pending retry that fires changes
\* neither the repository, nor lastRevision, nor the registered listeners.
C6_PendingRetryIsNoOp ==
  [][(repository /\ RetryFires) => UNCHANGED <<repository, lastCommitSha, listeners>>]_vars

RECURSIVE SumSeq(_)
SumSeq(q) == IF q = <<>> THEN 0 ELSE q[1] + SumSeq(Tail(q))

LinesOfKind(hunk, kinds) == LinesOfKindIn(hunk.lines, kinds)

\* the lines of the given kind summed over all entries of file.hunks
KindCount(file, kind) ==
  SumSeq([j \in DOMAIN file.hunks |-> Len(LinesOfKind(file.hunks[j], {kind}))])

\* C8: serializing well-formed file records to unified-diff text and parsing
\* the text gives the same file records back.
C8_RoundTrip == ppc = "done" => parsed = source

\* C9: in every returned file record addedLines is the number of add lines
\* summed over the entries of hunks, and removedLines that of remove lines.
C9_CountersMatchHunks ==
  ppc = "done" =>
    \A k \in DOMAIN parsed :
      /\ parsed[k].addedLines = KindCount(parsed[k], "add")
      /\ parsed[k].removedLines = KindCount(parsed[k], "remove")

\* C10: in every returned hunk the old line numbers of the remove and context
\* lines are oldStart, oldStart+1, ... and the new line numbers of the add and
\* context lines are newStart, newStart+1, ...
C10_LineNumbersConsecutive ==
  ppc = "done" =>
    \A k \in DOMAIN parsed : \A j \in DOMAIN parsed[k].hunks :
      LET hunk == parsed[k].hunks[j]
          olds == LinesOfKind(hunk, {"remove", "context"})
          news == LinesOfKind(hunk, {"add", "context"})
      IN /\ \A n \in DOMAIN olds : olds[n].oldLineNumber = hunk.oldStart + n - 1
         /\ \A n \in DOMAIN news : news[n].newLineNumber = hunk.newStart + n - 1

\* C10 witness: a parsed hunk whose context line is followed by a remove line,
\* numbered from different old and new starts.
C10_Witness ==
  /\ ppc = "done"
  /\ \E k \in DOMAIN parsed : \E j \in DOMAIN parsed[k].hunks :
       LET hunk == parsed[k].hunks[j]
       IN /\ hunk.oldStart = 1 /\ hunk.newStart = 3
          /\ Len(hunk.lines) = 2
          /\ hunk.lines[1].type = "context"
          /\ hunk.lines[1].oldLineNumber = 1 /\ hunk.lines[1].newLineNumber = 3
          /\ hunk.lines[2].type = "remove" /\ hunk.lines[2].oldLineNumber = 2

\* C11: parseDiffText on the six-line text of Scenario A returns exactly one
\* file record: x.txt, modified, one hunk with oldStart 1, oldCount 2,
\* newStart 1, newCount 3 and the lines context (old 1, new 1), remove (old 2),
\* add (new 2), add (new 3); addedLines is 2 and removedLines is 1.
C11_ScenarioA ==
  (ppc = "done" /\ input = ScenarioA_Text) =>
    parsed =
      <<[filePath |-> <<"x", ".", "t", "x", "t">>, status |-> "modified",
         addedLines |-> 2, removedLines |-> 1,
         hunks |->
           <<[oldStart |-> 1, oldCount |-> 2, newStart |-> 1, newCount |-> 3,
              lines |->
                <<[type |-> "context", content |-> <<"c", "o", "n", "t", "e", "x", "t">>,
                   oldLineNumber |-> 1, newLineNumber |-> 1],
                  [type |-> "remove", content |-> <<"o", "l", "d">>, oldLineNumber |-> 2],
                  [type |-> "add", content |-> <<"n", "e", "w", "1">>, newLineNumber |-> 2],
                  [type |-> "add", content |-> <<"n", "e", "w", "2">>, newLineNumber |-> 3]>>]>>]>>

\* C11 witness: the Scenario A text has been parsed to one record.
C11_Witness == ppc = "done" /\ input = ScenarioA_Text /\ Len(parsed) = 1

\* the lines of the parsed text, as the scan sees them
InputLines == SplitOn(input, NL)

\* the scan state after the first i lines
ScanAfter(lines, i) == ParseLines(ScanStart, SubSeq(lines, 1, i), 1)

\* a file record with its hunk references replaced by the hunks
ResolveFile(st, file) ==
  [file EXCEPT !.hunks = [j \in DOMAIN file.hunks |-> st.heap[file.hunks[j]]]]

\* what a scan state holds: the records so far, the file and hunk in progress,
\* the running counters
ScanView(st) ==
  [parsedDiffs |-> [k \in DOMAIN st.parsedDiffs |-> ResolveFile(st, st.parsedDiffs[k])],
   currentFile |-> IF st.currentFile = <<>> THEN <<>>
                   ELSE <<ResolveFile(st, st.currentFile[1])>>,
   currentHunk |-> IF st.currentHunk = 0 THEN <<>> ELSE <<st.heap[st.currentHunk]>>,
   oldLineNum |-> st.oldLineNum,
   newLineNum |-> st.newLineNum]

L_PlusMarker == <<"+", "+", "+", " ", "b", "/", "x">>
L_Index == <<"i", "n", "d", "e", "x", " ", "1", "a", ".", ".", "2", "b">>

\* lines of none of the recognized forms: diff metadata, the empty line, a
\* '+++' marker, a line that starts with '@@' and is no hunk header
UnrecognizedLines == {L_NoNewline, <<>>, L_PlusMarker, L_Index, L_HunkMalformed}

\* C12: parseDiffText returns a sequence of file records for every input, and
\* at every point of the scan a line of none of the recognized forms changes
\* neither the records nor the running old/new line counters.
C12_UnrecognizedIgnored ==
  /\ ppc = "done" =>
       /\ DOMAIN parsed = 1..Len(parsed)
       /\ \A k \in DOMAIN parsed :
            /\ parsed[k].status \in {"modified", "added", "deleted"}
            /\ DOMAIN parsed[k].hunks = 1..Len(parsed[k].hunks)
  /\ \A i \in 0..Len(InputLines) : \A u \in UnrecognizedLines :
       ScanView(ParseLine(ScanAfter(InputLines, i), u)) = ScanView(ScanAfter(InputLines, i))

\* the positions of the file headers
HeaderIndexes(lines) == {i \in DOMAIN lines : StartsWith(lines[i], S_DiffGit)}

\* the position of the k-th file header
KthHeader(lines, k) ==
  CHOOSE i \in HeaderIndexes(lines) :
    Cardinality({j \in HeaderIndexes(lines) : j <= i}) = k

\* the lines between the k-th file header and the next one (or the end)
LinesOfFile(lines, k) ==
  {i \in DOMAIN lines :
     /\ i > KthHeader(lines, k)
     /\ \A j \in HeaderIndexes(lines) : j > KthHeader(lines, k) => i < j}

MarkerOf(line) ==
  IF StartsWith(line, S_NewFileMode) THEN "added"
  ELSE IF StartsWith(line, S_DeletedFileMode) THEN "deleted"
  ELSE "none"

\* the status the markers of the k-th file give it
StatusByMarkers(lines, k) ==
  LET ms == {i \in LinesOfFile(lines, k) : MarkerOf(lines[i]) # "none"}
  IN IF ms = {} THEN "modified"
     ELSE MarkerOf(lines[CHOOSE i \in ms : \A j \in ms : j <= i])

\* C13: every file header gives one record; a 'new file mode' line after the
\* header sets the record's status to added, a 'deleted file mode' line to
\* deleted, a record with no marker before the next header or the end is
\* modified; markers of one file leave the other records alone.
C13_StatusMarkers ==
  ppc = "done" =>
    /\ Len(parsed) = Cardinality(HeaderIndexes(InputLines))
    /\ \A k \in DOMAIN parsed : parsed[k].status = StatusByMarkers(InputLines, k)

\* C13 witness: a file with a 'new file mode' marker followed by a file with
\* none, parsed to an added and a modified record.
C13_Witness ==
  /\ ppc = "done"
  /\ input = JoinLines(<<L_HeaderX, L_NewFile, L_HeaderX>>)
  /\ Len(parsed) = 2
  /\ parsed[1].status = "added" /\ parsed[2].status = "modified"

\* C14: of two consecutive 'diff --git' lines each gives a file record; the
\* record of the first has no hunks, and so has the record of the second when
\* no hunk header follows it.
C14_ConsecutiveHeaders ==
  ppc = "done" =>
    \A k \in 1..(Cardinality(HeaderIndexes(InputLines)) - 1) :
      KthHeader(InputLines, k + 1) = KthHeader(InputLines, k) + 1 =>
        /\ Len(parsed) >= k + 1
        /\ parsed[k].hunks = <<>>
        /\ (\A i \in LinesOfFile(InputLines, k + 1) :
              ~StartsWith(InputLines[i], <<"@", "@">>)) => parsed[k + 1].hunks = <<>>

\* the texts of the requests that returned, among the first n changes, in order
RetrievedDiffs(changes, n) ==
  LET got == SelectSeq(SubSeq(changes, 1, n), LAMBDA c : c.ok)
  IN [j \in DOMAIN got |-> got[j].text]

\* C15: a failed per-file request does not end the loop: every change of the
\* list is requested, the text built, and the text handed to parseDiffText, is
\* that of exactly the retrieved per-file diffs (each followed by a newline) in
\* the order of the list, and a failed request raises no error.
C15_PartialResults ==
  /\ apc = "files" =>
       fullDiffText = JoinLines(RetrievedDiffs(changedFiles.changes, fileIndex - 1))
  /\ (apc = "done" /\ ~NoFilesChanged(changedFiles)) =>
       fileIndex = Len(changedFiles.changes) + 1
  /\ \A k \in DOMAIN parserCalls :
       parserCalls[k] =
         JoinLines(RetrievedDiffs(changedFiles.changes, Len(changedFiles.changes)))
  /\ changedFiles.result # "throws" => errorMessages = 0

\* C15 witness: the second of three requests failed and the parser got the
\* first and the third diff.
C15_Witness ==
  /\ apc = "done"
  /\ Len(changedFiles.changes) = 3
  /\ changedFiles.changes[1] = [ok |-> TRUE, text |-> D_FileX]
  /\ ~changedFiles.changes[2].ok
  /\ changedFiles.changes[3] = [ok |-> TRUE, text |-> D_FileNew]
  /\ parserCalls = <<D_FileX \o <<NL>> \o D_FileNew \o <<NL>>>>
  /\ Len(sidebar) = 1

\* no file diff could be obtained: no change listed, or every request failed
\* or returned the empty text
NoDiffObtained(answer) ==
  answer.result = "list" =>
    \A k \in DOMAIN answer.changes : ~answer.changes[k].ok \/ answer.changes[k].text = <<>>

\* C16: when no file diff could be obtained the acquisition ends as 'no
\* changes': parseDiffText is not called, nothing is sent to the sidebar, no
\* error is raised.
C16_NoChanges ==
  (apc = "done" /\ changedFiles.result # "throws" /\ NoDiffObtained(changedFiles)) =>
    /\ parserCalls = <<>>
    /\ sidebar = <<>>
    /\ errorMessages = 0

\* C17: the range of every thread has its start line and its end line within
\* [0, lineCount - 1] of the thread's file.
C17_RangeClamped ==
  \A id \in DOMAIN threads :
    /\ threads[id].range.start.line \in 0..(LineCount(threads[id].uri) - 1)
    /\ threads[id].range.end.line \in 0..(LineCount(threads[id].uri) - 1)

\* createAdvancedCommentThread resumes for a suggestion whose file is not found
NotFoundStep(d) ==
  /\ d \in displays
  /\ FindFiles(d.suggestion.filePath) = <<>>
  /\ ResumeFindFiles(d)

\* C18: when no workspace file matches a suggestion's filePath no thread is
\* added, the loop goes on to the review's next suggestion, and after the last
\* one displayReviewsAsComments ends with its message.
C18_NotFoundSkipped ==
  [][\A d \in displays :
       NotFoundStep(d) =>
         /\ threads' = threads
         /\ threadData' = threadData
         /\ IF d.remaining = 1
            THEN /\ Notice(0, "Added review comment(s)") \in notices'
                 /\ \A e \in displays' : e.call # d.call
            ELSE \E e \in displays' :
                   e.call = d.call /\ e.remaining = d.remaining - 1]_vars

\* C18 witness: a review with suggestions has been displayed to its end and no
\* thread was ever created: none of its files was found.
C18_Witness ==
  /\ reviews = 1
  /\ displays = {}
  /\ Notice(0, "Added review comment(s)") \in notices
  /\ nextThreadId = 1
  /\ threads = <<>>

\* the thread is active and its suggestion has no replacement
ActiveWithoutReplacement(id) ==
  /\ id \in DOMAIN threads
  /\ id \in DOMAIN threadData
  /\ threadData[id].suggestion.codeChange \in {NULL, ""}

\* C19: applySuggestion on an active thread whose suggestion has no replacement
\* reports failure, hands no edit to the workspace, and leaves the thread, its
\* suggestion and its conversation as they were.
C19_NoReplacementFails ==
  [][\A id \in ThreadIds :
       (ActiveWithoutReplacement(id) /\ ApplySuggestion(id)) =>
         /\ Notice(id, "No code change available to apply.") \in notices'
         /\ applying' = applying
         /\ edits' = {}
         /\ threads' = threads
         /\ threadData' = threadData]_vars

\* C19 witness: the failure has been reported for a thread that is still
\* active and has no replacement.
C19_Witness ==
  \E id \in ThreadIds :
    /\ ActiveWithoutReplacement(id)
    /\ Notice(id, "No code change available to apply.") \in notices
    /\ edits = {}

\* C20: the edit applySuggestion hands to applyEdit is the replacement the
\* thread has at the call, over the thread's range in the thread's file; when
\* applyEdit reports success for an active thread that edit is the one
\* written and the thread leaves threads and threadData; applySuggestion
\* removes a thread at no other step.
C20_AppliedThenRemoved ==
  [][/\ \A id \in ThreadIds :
          (CanApply(threads, threadData, id) /\ ApplySuggestion(id)) =>
            \E a \in applying' \ applying :
              /\ a.threadId = id
              /\ a.uri = threads[id].uri
              /\ a.range = threads[id].range
              /\ a.newText = threadData[id].suggestion.codeChange
     /\ \A a \in applying :
          (a.threadId \in DOMAIN threads /\ a.threadId \in DOMAIN threadData
             /\ ResumeApplyEdit(a, "applied")) =>
            /\ [threadId |-> a.threadId, uri |-> threads[a.threadId].uri,
                range |-> threads[a.threadId].range,
                newText |-> a.newText,
                outcome |-> "applied"] \in edits'
            /\ a.threadId \notin DOMAIN threads'
            /\ a.threadId \notin DOMAIN threadData'
     /\ EditEnds =>
          \A id \in (DOMAIN threads \ DOMAIN threads') \cup
                    (DOMAIN threadData \ DOMAIN threadData') :
            \E e \in edits' : e.threadId = id /\ e.outcome = "applied"
     /\ ApplyCommand => (threads' = threads /\ threadData' = threadData)]_vars

\* C20 witness: an edit was accepted and its thread is gone from both maps.
C20_Witness ==
  \E e \in edits :
    /\ e.outcome = "applied"
    /\ e.newText = "return a;"
    /\ e.threadId \notin DOMAIN threads
    /\ e.threadId \notin DOMAIN threadData
    /\ Notice(e.threadId, "Code suggestion applied successfully!") \in notices

\* the message applySuggestion shows when applyEdit answers false or throws
FailureNotice(id, outcome) ==
  Notice(id, IF outcome = "rejected" THEN "Failed to apply code suggestion."
                                     ELSE "Error applying code suggestion.")

\* C21: when applyEdit answers false or throws, applySuggestion shows a
\* failure message and leaves threads and threadData as they were: the
\* thread keeps its id, its suggestion and its conversation.
C21_RejectedEditKeepsThread ==
  [][\A a \in applying, o \in {"rejected", "throws"} :
       ResumeApplyEdit(a, o) =>
         /\ FailureNotice(a.threadId, o) \in notices'
         /\ threads' = threads
         /\ threadData' = threadData]_vars

\* C21 witness: applyEdit has just thrown for a thread that is still active
\* and the failure is on display.
C21_Witness ==
  \E e \in edits :
    /\ e.outcome = "throws"
    /\ e.threadId \in DOMAIN threads
    /\ e.threadId \in DOMAIN threadData
    /\ e.newText = threadData[e.threadId].suggestion.codeChange
    /\ FailureNotice(e.threadId, "throws") \in notices

\* resolve, apply or fixWithAI is called with threadId
OperationOn(threadId) ==
  MarkAsUnderstood(threadId) \/ ApplySuggestion(threadId) \/ FixWithAI(threadId)

\* C22: an id that was given to a thread and is no longer a key of threads
\* (the thread was resolved, applied or cleared) is never a key of threads or
\* threadData again, whatever create, reply, apply, resolve, fixWithAI or
\* clearAll does next; and markAsUnderstood, applySuggestion or fixWithAI
\* called with such an id leaves both maps and every call in flight as they
\* were, and ends with at most an error message (no exception).
C22_RemovedIdStaysRemoved ==
  [][/\ \A id \in ThreadIds :
          /\ id \notin DOMAIN threads => id \notin DOMAIN threads'
          /\ id \notin DOMAIN threadData => id \notin DOMAIN threadData'
     /\ \A id \in ThreadIds :
          (id \notin DOMAIN threads /\ OperationOn(id)) =>
            /\ threads' = threads
            /\ threadData' = threadData
            /\ UNCHANGED <<nextThreadId, displays, applying, asking, removals>>
            /\ edits' = {}
            /\ notices' \subseteq
                 {Notice(id, "No code change available to apply."),
                  Notice(id, "Unable to process AI fix request.")}]_vars

\* C22 witness: fixWithAI has just been refused for an id whose thread was
\* removed, while a thread created later is active.
C22_Witness ==
  \E id \in ThreadIds :
    /\ id \notin DOMAIN threads
    /\ id \notin DOMAIN threadData
    /\ Notice(id, "Unable to process AI fix request.") \in notices
    /\ \E later \in DOMAIN threads : later > id

\* markAsUnderstood(threadId) runs, called by the command or by a reply's timer
Resolves(threadId) ==
  \/ MarkAsUnderstood(threadId)
  \/ \E t \in removals : t.threadId = threadId /\ RemovalTimer(t)

\* C23: markAsUnderstood on a thread that is a key of threads removes it from
\* threads and threadData, whatever its conversation and its suggestion are,
\* and every other entry of both maps stays as it was.
C23_ResolveRemovesOnlyThat ==
  [][\A id \in DOMAIN threads :
       Resolves(id) =>
         /\ id \notin DOMAIN threads'
         /\ id \notin DOMAIN threadData'
         /\ \A other \in DOMAIN threads \ {id} :
              other \in DOMAIN threads' /\ threads'[other] = threads[other]
         /\ \A other \in DOMAIN threadData \ {id} :
              other \in DOMAIN threadData' /\ threadData'[other] = threadData[other]]_vars

\* C23 witness: a thread whose reply is still waiting for its answer (its
\* conversation had grown) has just been marked as understood, and another
\* thread is still active.
C23_Witness ==
  \E id \in ThreadIds :
    /\ Notice(id, "Suggestion marked as understood") \in notices
    /\ id \notin DOMAIN threads
    /\ id \notin DOMAIN threadData
    /\ \E q \in asking : q.kind = "reply" /\ q.threadId = id
    /\ \E other \in DOMAIN threads : other \in DOMAIN threadData

\* C24: whatever the state, clearAllComments can run, leaves threads and
\* threadData empty, and clearing the maps it leaves gives the same empty
\* maps: a second call right after the first changes nothing.
C24_ClearIdempotent ==
  [][/\ ENABLED ClearAllComments
     /\ ClearAllComments =>
          /\ threads' = <<>>
          /\ threadData' = <<>>
          /\ Cleared(threads') = threads'
          /\ Cleared(threadData') = threadData'
          /\ nextThreadId' = nextThreadId]_vars

\* C24 witness: clearAllComments, called for itself, has just cleared a
\* non-empty set of threads.
C24_Witness ==
  /\ threads = <<>>
  /\ threadData = <<>>
  /\ displays = {}
  /\ \E size \in 1..MaxThreads : notices = {ClearLog(size)}

\* seq continues prefix: nothing removed, nothing reordered
IsPrefix(prefix, seq) ==
  Len(prefix) <= Len(seq) /\ \A i \in 1..Len(prefix) : seq[i] = prefix[i]

\* a reply on an active thread puts the user's message at the end of the
\* thread's conversation, and no step removes or reorders a message of an
\* active thread
ReplyAppends ==
  /\ \A id \in DOMAIN threads \cap DOMAIN threadData :
       HandleUserReply(id) =>
         /\ id \in DOMAIN threadData'
         /\ threadData'[id].conversation =
              Append(threadData[id].conversation,
                     [author |-> "User", message |-> ReplyText])
  /\ \A id \in DOMAIN threadData \cap DOMAIN threadData' :
       IsPrefix(threadData[id].conversation, threadData'[id].conversation)

\* no step of a reply (its start, its resumption, its timer) takes a thread
\* out of threads or threadData
ReplyRemovesNothing ==
  (ReplyArrives \/ ReplyEnds \/ RemovalTimerFires) =>
    /\ DOMAIN threads' = DOMAIN threads
    /\ DOMAIN threadData' = DOMAIN threadData

\* C26: a reply on an active thread appends the user's message to the end of
\* the thread's conversation, earlier messages are never removed or
\* reordered, and a reply never causes the thread to be removed.
C26_ReplyAppendsAndKeeps == [][ReplyAppends /\ ReplyRemovesNothing]_vars

\* the conversation alone: appended to, never cut or reordered
ConversationAppendOnly == [][ReplyAppends]_vars

\* C27: from the creation of a thread until its removal no step changes the
\* suggestion stored for it (filePath, startLine, endLine, suggestion,
\* codeChange).
C27_SuggestionImmutable ==
  [][\A id \in DOMAIN threadData \cap DOMAIN threadData' :
       threadData'[id].suggestion = threadData[id].suggestion]_vars

\* replies and failed applies leave the stored suggestion alone: only a
\* resumption of fixWithAI changes it
OnlyFixChangesSuggestion ==
  [][(\E id \in DOMAIN threadData \cap DOMAIN threadData' :
        threadData'[id].suggestion # threadData[id].suggestion) => FixEnds]_vars

RECURSIVE JoinWith(_, _)
\* lines.join(sep)
JoinWith(ls, sep) ==
  IF ls = <<>> THEN <<>>
  ELSE IF Len(ls) = 1 THEN ls[1]
  ELSE ls[1] \o sep \o JoinWith(Tail(ls), sep)

\* the lines without the i-th
WithoutLine(lines, i) == SubSeq(lines, 1, i - 1) \o SubSeq(lines, i + 1, Len(lines))

\* the positions of the lines that start with '@@' and do not match the
\* hunk-header pattern
MalformedHeaderIndexes(lines) ==
  {i \in DOMAIN lines : StartsWith(lines[i], <<"@", "@">>) /\ HunkMatch(lines[i]) = <<>>}

\* the scan of the parsed text at its end, hunks still as references
FinalScan == FinalizeScan(ParseLines(ScanStart, InputLines, 1))

\* no hunk object is twice in the hunks of one record
NoHunkTwice(st) ==
  \A k \in DOMAIN st.parsedDiffs :
    \A a, b \in DOMAIN st.parsedDiffs[k].hunks :
      a # b => st.parsedDiffs[k].hunks[a] # st.parsedDiffs[k].hunks[b]

\* C29: a line that starts with '@@' and does not match the hunk-header
\* pattern is skipped: the records returned are those returned for the text
\* without that line, and no hunk is twice in the hunks of a record.
C29_MalformedHeaderSkipped ==
  ppc = "done" =>
    /\ \A i \in MalformedHeaderIndexes(InputLines) :
         parsed = parseDiffText(JoinWith(WithoutLine(InputLines, i), <<NL>>))
    /\ NoHunkTwice(FinalScan)

\* without a malformed '@@' line in the text no hunk is twice in a record
NoMalformedNoHunkTwice ==
  (ppc = "done" /\ MalformedHeaderIndexes(InputLines) = {}) => NoHunkTwice(FinalScan)

\* the positions of the hunk headers: the n-th of them starts the n-th hunk
HunkHeaderIndexes(lines) ==
  {i \in DOMAIN lines :
     /\ ~StartsWith(lines[i], S_DiffGit)
     /\ ~StartsWith(lines[i], S_NewFileMode)
     /\ ~StartsWith(lines[i], S_DeletedFileMode)
     /\ StartsWith(lines[i], <<"@", "@">>)
     /\ HunkMatch(lines[i]) # <<>>}

\* the position of the hunk header that started the hunk with the reference
StartOfHunk(lines, ref) ==
  CHOOSE i \in HunkHeaderIndexes(lines) :
    Cardinality({j \in HunkHeaderIndexes(lines) : j <= i}) = ref

\* C30: every hunk of the k-th record returned was started by a hunk header
\* that lies after the k-th 'diff --git' line and before the next one; a hunk
\* header before the first file header, or one of an earlier file, gives no
\* hunk to a later record.
C30_HunksWithinTheirFile ==
  ppc = "done" =>
    \A k \in DOMAIN FinalScan.parsedDiffs :
      \A j \in DOMAIN FinalScan.parsedDiffs[k].hunks :
        StartOfHunk(InputLines, FinalScan.parsedDiffs[k].hunks[j])
          \in LinesOfFile(InputLines, k)

\* a hunk started after the first file header is in no record but that of the
\* file whose lines hold its header
HunksOfFilesStay ==
  ppc = "done" =>
    \A k \in DOMAIN FinalScan.parsedDiffs :
      \A j \in DOMAIN FinalScan.parsedDiffs[k].hunks :
        LET start == StartOfHunk(InputLines, FinalScan.parsedDiffs[k].hunks[j])
        IN start > KthHeader(InputLines, 1) => start \in LinesOfFile(InputLines, k)

(***************************************************************************)
(* performWorkingTreeReview, performCodeReview                             *)
(*                                                                         *)
(* One review request: the API key is configured, entered or refused, the  *)
(* model answers with a text or the request fails.  A parsed JSON value is *)
(* kept by its type and by what reading .summary and .suggestions of it    *)
(* gives (<<>>: undefined, <<v>>: the value v).                            *)
(***************************************************************************)

\* {"summary":"ok","suggestions":[]}
B_Review == <<"{", "\"", "s", "u", "m", "m", "a", "r", "y", "\"", ":", "\"", "o", "k", "\"", ",", "\"", "s", "u", "g", "g", "e", "s", "t", "i", "o", "n", "s", "\"", ":", "[", "]", "}">>
\* {"summary":"ok","suggestions":[{"filePath":"a","startLine":2,"endLine":3,"suggestion":"x","codeChange":null}]}
B_ReviewOne == <<"{", "\"", "s", "u", "m", "m", "a", "r", "y", "\"", ":", "\"", "o", "k", "\"", ",", "\"", "s", "u", "g", "g", "e", "s", "t", "i", "o", "n", "s", "\"", ":", "[", "{", "\"", "f", "i", "l", "e", "P", "a", "t", "h", "\"", ":", "\"", "a", "\"", ",", "\"", "s", "t", "a", "r", "t", "L", "i", "n", "e", "\"", ":", "2", ",", "\"", "e", "n", "d", "L", "i", "n", "e", "\"", ":", "3", ",", "\"", "s", "u", "g", "g", "e", "s", "t", "i", "o", "n", "\"", ":", "\"", "x", "\"", ",", "\"", "c", "o", "d", "e", "C", "h", "a", "n", "g", "e", "\"", ":", "n", "u", "l", "l", "}", "]", "}">>
\* {"foo":1}
B_Mismatch == <<"{", "\"", "f", "o", "o", "\"", ":", "1", "}">>
\* {"summary":"ok"}
B_NoSuggestions == <<"{", "\"", "s", "u", "m", "m", "a", "r", "y", "\"", ":", "\"", "o", "k", "\"", "}">>
\* []
B_Array == <<"[", "]">>
\* 42
B_Number == <<"4", "2">>
\* null
B_Null == <<"n", "u", "l", "l">>
\* Looks good   (no JSON)
B_Text == <<"L", "o", "o", "k", "s", " ", "g", "o", "o", "d">>
\* {"summary":"ok",   (no JSON)
B_Truncated == <<"{", "\"", "s", "u", "m", "m", "a", "r", "y", "\"", ":", "\"", "o", "k", "\"", ",">>
\* the empty text   (no JSON)
B_Empty == <<>>

\* the grave accent U+0060, which no string of the module can hold
Grave == "U+0060"

S_FenceJson == <<Grave, Grave, Grave, "j", "s", "o", "n">>
S_Fence == <<Grave, Grave, Grave>>
S_Prose == <<"R", "e", "v", "i", "e", "w", ":">>

\* the answer as it is, in a json fence, in a plain fence, between white
\* space, in a fence after a line of prose
ResponseWrappings(body) ==
  {body,
   S_FenceJson \o <<NL>> \o body \o <<NL>> \o S_Fence,
   S_Fence \o <<NL>> \o body \o <<NL>> \o S_Fence \o <<NL>>,
   <<" ", NL>> \o body \o <<NL>>,
   S_Prose \o <<NL>> \o S_FenceJson \o <<NL>> \o body \o <<NL>> \o S_Fence}

ResponseBodies ==
  {B_Review, B_ReviewOne, B_Mismatch, B_NoSuggestions, B_Array, B_Number, B_Null,
   B_Text, B_Truncated, B_Empty}

\* response.text()
ResponseTexts == UNION {ResponseWrappings(b) : b \in ResponseBodies}

RECURSIVE StripFences(_)
\* content.replace(re, ""), re the fence with or without json, and a newline
\* after it if there is one, everywhere, from left to right
StripFences(s) ==
  IF \E p \in 1..Len(s) : LiteralAt(s, p, S_Fence)
  THEN LET p == CHOOSE k \in 1..Len(s) :
                  LiteralAt(s, k, S_Fence) /\ \A j \in 1..(k - 1) : ~LiteralAt(s, j, S_Fence)
           n == IF LiteralAt(s, p, S_FenceJson) THEN Len(S_FenceJson) ELSE Len(S_Fence)
           m == IF LiteralAt(s, p + n, <<NL>>) THEN n + 1 ELSE n
       IN SubSeq(s, 1, p - 1) \o StripFences(SubSeq(s, p + m, Len(s)))
  ELSE s

WhiteSpace == {" ", NL, "\t", "\r"}

\* String.prototype.trim
Trim(s) ==
  LET inked == {i \in 1..Len(s) : s[i] \notin WhiteSpace}
  IN IF inked = {} THEN <<>>
     ELSE SubSeq(s, CHOOSE i \in inked : \A j \in inked : i <= j,
                    CHOOSE i \in inked : \A j \in inked : j <= i)

\* the text handed to JSON.parse
CleanedContent(text) == Trim(StripFences(text))

JsonValue(type, summary, suggestions) ==
  [type |-> type, summary |-> summary, suggestions |-> suggestions]

\* JSON.parse(content) for the contents of the model: <<value>>, or <<>> when
\* it throws a SyntaxError
JsonParse(content) ==
  IF content = B_Review THEN <<JsonValue("object", <<"ok">>, << <<>> >>)>>
  ELSE IF content = B_ReviewOne
  THEN <<JsonValue("object", <<"ok">>,
           << <<[filePath |-> "a", startLine |-> 2, endLine |-> 3,
                 suggestion |-> <<"x">>, codeChange |-> <<NULL>>]>> >>)>>
  ELSE IF content = B_Mismatch THEN <<JsonValue("object", <<>>, <<>>)>>
  ELSE IF content = B_NoSuggestions THEN <<JsonValue("object", <<"ok">>, <<>>)>>
  ELSE IF content = B_Array THEN <<JsonValue("array", <<>>, <<>>)>>
  ELSE IF content = B_Number THEN <<JsonValue("number", <<>>, <<>>)>>
  ELSE IF content = B_Null THEN <<JsonValue("null", <<>>, <<>>)>>
  ELSE <<>>

\* files[0]?.relativePath || "unknown", analysis.diffs[0]?.filePath || "unknown"
FirstPath(filePaths) ==
  IF Len(filePaths) = 0 \/ filePaths[1] = "" THEN "unknown" ELSE filePaths[1]

\* the review built in `catch (parseError)`
FallbackReview(filePaths, content) ==
  JsonValue("object",
            <<"Failed to parse AI response as JSON. Raw feedback follows:">>,
            << <<[filePath |-> FirstPath(filePaths), startLine |-> 1, endLine |-> 1,
                  suggestion |-> content, codeChange |-> <<>>]>> >>)

\* `const review = JSON.parse(content) as CodeReview; return review;`, or the
\* fallback review when JSON.parse throws
ReviewOf(filePaths, text) ==
  LET content == CleanedContent(text)
      value == JsonParse(content)
  IN IF value # <<>> THEN value[1] ELSE FallbackReview(filePaths, content)

ReviewOutcome(outcome, shown, value) ==
  [outcome |-> outcome, shown |-> shown, value |-> value]

NoValue == JsonValue("undefined", <<>>, <<>>)

\* message.files of 'startWorkingTreeReview' is not empty; message.analysis of
\* 'startCommitReview' may hold no diff
ReviewFilePaths(method) ==
  IF method = "performWorkingTreeReview"
  THEN {<<"src/a.ts">>, <<"src/b.ts", "src/a.ts">>}
  ELSE {<<>>, <<"src/a.ts">>, <<"src/b.ts", "src/a.ts">>}

\* what model.generateContent gives: it fails, or answers a text
ReviewAnswers ==
  {[ok |-> FALSE, text |-> <<>>]} \cup {[ok |-> TRUE, text |-> t] : t \in ResponseTexts}

ReviewRequests ==
  {[method |-> m, apiKey |-> k, filePaths |-> f, answer |-> a] :
     m \in {"performWorkingTreeReview", "performCodeReview"},
     k \in {"configured", "entered", "refused"},
     f \in ReviewFilePaths("performCodeReview"),
     a \in ReviewAnswers}

\* performWorkingTreeReview(files), performCodeReview(analysis) up to
\* `await model.generateContent(prompt)`
ReviewStart ==
  /\ rpc = "ready"
  /\ IF reviewRequest.apiKey = "refused"
     THEN /\ review' = <<ReviewOutcome("throws",
                           "Gemini API key is required for code review functionality.",
                           NoValue)>>
          /\ rpc' = "done"
     ELSE /\ rpc' = "asked"
          /\ UNCHANGED review
  /\ UNCHANGED <<reviewRequest, watcherVars, parserVars, acquireVars, commentVars,
                 debounceVars>>

\* the method resumes from generateContent
ReviewResume ==
  /\ rpc = "asked"
  /\ review' =
       IF reviewRequest.answer.ok
       THEN <<ReviewOutcome("returns", "",
                ReviewOf(reviewRequest.filePaths, reviewRequest.answer.text))>>
       ELSE <<ReviewOutcome("throws", "", NoValue)>>
  /\ rpc' = "done"
  /\ UNCHANGED <<reviewRequest, watcherVars, parserVars, acquireVars, commentVars,
                 debounceVars>>

ReviewInit ==
  /\ WatcherIdle
  /\ ParserIdle
  /\ AcquireIdle
  /\ CommentsIdle
  /\ DebounceIdle
  /\ rpc = "ready"
  /\ reviewRequest \in
       {r \in ReviewRequests : r.filePaths \in ReviewFilePaths(r.method)}
  /\ review = <<>>

ReviewNext == ReviewStart \/ ReviewResume

SpecReview == ReviewInit /\ [][ReviewNext]_vars

\* the text handed to JSON.parse, and what it gives, in the request at hand
Content == CleanedContent(reviewRequest.answer.text)
Parsed == JsonParse(Content)

\* the value has the shape {summary, suggestions[]}
MatchesSchema(value) ==
  value.type = "object" /\ value.summary # <<>> /\ value.suggestions # <<>>

\* the review has exactly one suggestion and its message is the text
OneSuggestionCarrying(value, text) ==
  /\ value.suggestions # <<>>
  /\ Len(value.suggestions[1]) = 1
  /\ value.suggestions[1][1].suggestion = text

\* C25: when the model's answer is no valid JSON, or is valid JSON that is not
\* of the shape {summary, suggestions[]}, the method returns a review with
\* exactly one suggestion, whose message is the text of the answer (as handed
\* to JSON.parse).
C25_MalformedResponseWrapped ==
  (rpc = "done" /\ review[1].outcome = "returns") =>
    ((Parsed = <<>> \/ ~MatchesSchema(Parsed[1])) =>
       OneSuggestionCarrying(review[1].value, Content))

\* an answer that JSON.parse rejects gives the fallback review: one suggestion
\* for the first file, at line 1, carrying the cleaned text
RejectedTextWrapped ==
  (rpc = "done" /\ review[1].outcome = "returns" /\ Parsed = <<>>) =>
    /\ review[1].value = FallbackReview(reviewRequest.filePaths, Content)
    /\ OneSuggestionCarrying(review[1].value, Content)

(***************************************************************************)
(* setupFileWatcher                                                        *)
(*                                                                         *)
(* Time goes on in steps of a third of the debounce window.  A timer runs  *)
(* when it is due: time does not pass a due timer, and a file event that   *)
(* comes at that very time is handled after it (the event loop runs the    *)
(* timers that are due before it takes the next event).                    *)
(***************************************************************************)

\* setTimeout(..., 300), in ms
DebounceMs == 300
Tick == DebounceMs \div 3
MaxTicks == 9
MaxEvents == 4

\* src/a.ts
P_Source == <<"s", "r", "c", "/", "a", ".", "t", "s">>
\* node_modules/x.js
P_Dependency == <<"n", "o", "d", "e", "_", "m", "o", "d", "u", "l", "e", "s", "/", "x", ".", "j", "s">>
\* src/layout.ts
P_Layout == <<"s", "r", "c", "/", "l", "a", "y", "o", "u", "t", ".", "t", "s">>
\* app.log
P_Log == <<"a", "p", "p", ".", "l", "o", "g">>
\* .git/HEAD
P_GitHead == <<".", "g", "i", "t", "/", "H", "E", "A", "D">>

\* uri.fsPath of the file events
EventPaths == {P_Source, P_Dependency, P_Layout, P_Log, P_GitHead}

\* String.prototype.includes, String.prototype.endsWith
Includes(s, t) == \E p \in 1..Len(s) : LiteralAt(s, p, t)
EndsWith(s, t) == Len(t) <= Len(s) /\ SubSeq(s, Len(s) - Len(t) + 1, Len(s)) = t

\* scheduleUpdate: the paths it returns for at once
IsFiltered(path) ==
  \/ Includes(path, <<"n", "o", "d", "e", "_", "m", "o", "d", "u", "l", "e", "s">>)
  \/ Includes(path, <<".", "g", "i", "t">>)
  \/ Includes(path, <<".", "v", "s", "c", "o", "d", "e">>)
  \/ Includes(path, <<"o", "u", "t">>)
  \/ Includes(path, <<"d", "i", "s", "t">>)
  \/ EndsWith(path, <<".", "l", "o", "g">>)

\* as ClearTimeout, were the timer set before left to run
ClearTimeoutSkipped(timeout) == timeout.pending

\* `if (updateTimeout) clearTimeout(updateTimeout)`: the timers left
ClearTimeout(timeout) ==
  IF timeout.handle # NoTimer THEN timeout.pending \ {timeout.handle}
  ELSE timeout.pending

\* setTimeout(callback, 300) at time t: the time the timer is due
DueTime(t) == t + DebounceMs

\* an event belongs to the burst of the event before it when it comes less
\* than the window after it
SameBurst(last, t) == last # NoTimer /\ t - last < DebounceMs

\* a timer is due
TimerDue == \E due \in updateTimeout.pending : due <= now

\* scheduleUpdate(uri) with uri.fsPath = path
ScheduleUpdate(path) ==
  /\ fileEvents < MaxEvents
  /\ ~TimerDue
  /\ fileEvents' = fileEvents + 1
  /\ IF IsFiltered(path)
     THEN UNCHANGED <<updateTimeout, lastEvent, bursts>>
     ELSE /\ updateTimeout' =
               [handle |-> DueTime(now),
                pending |-> ClearTimeout(updateTimeout) \cup {DueTime(now)}]
          /\ lastEvent' = now
          /\ bursts' = IF SameBurst(lastEvent, now)
                       THEN [bursts EXCEPT ![Len(bursts)] = @ + 1]
                       ELSE Append(bursts, 1)
  /\ UNCHANGED <<now, refreshCalls, watcherVars, parserVars, acquireVars,
                 commentVars, reviewVars>>

\* the callback of a timer runs: this.refreshRepositoryInfo()
UpdateTimerFires ==
  /\ \E due \in updateTimeout.pending :
       /\ due <= now
       /\ updateTimeout' = [updateTimeout EXCEPT !.pending = @ \ {due}]
  /\ refreshCalls' = refreshCalls + 1
  /\ UNCHANGED <<now, lastEvent, bursts, fileEvents, watcherVars, parserVars,
                 acquireVars, commentVars, reviewVars>>

\* time goes on, up to the next due time at most
TimePasses ==
  /\ now < MaxTicks * Tick
  /\ ~TimerDue
  /\ now' = IF \E due \in updateTimeout.pending : due < now + Tick
            THEN CHOOSE due \in updateTimeout.pending :
                   \A other \in updateTimeout.pending : due <= other
            ELSE now + Tick
  /\ UNCHANGED <<updateTimeout, lastEvent, bursts, fileEvents, refreshCalls,
                 watcherVars, parserVars, acquireVars, commentVars, reviewVars>>

FileEvent == \E path \in EventPaths : ScheduleUpdate(path)

DebounceInit ==
  /\ WatcherIdle
  /\ ParserIdle
  /\ AcquireIdle
  /\ CommentsIdle
  /\ ReviewIdle
  /\ DebounceIdle

DebounceNext == FileEvent \/ UpdateTimerFires \/ TimePasses

SpecDebounce == DebounceInit /\ [][DebounceNext]_vars

\* C28: every burst of relevant file events (each less than 300 ms after the
\* one before) that has ended has had refreshRepositoryInfo called exactly
\* once, the burst going on has had none; a call is made only when 300 ms have
\* passed since the last relevant event; an event on a filtered path leaves
\* the timer, and so the calls, as they were.
C28_RefreshDebounced ==
  [][/\ refreshCalls' =
          IF updateTimeout'.pending # {} THEN Len(bursts') - 1 ELSE Len(bursts')
     /\ refreshCalls' # refreshCalls =>
          /\ refreshCalls' = refreshCalls + 1
          /\ lastEvent # NoTimer
          /\ now >= lastEvent + DebounceMs
     /\ \A path \in EventPaths :
          (IsFiltered(path) /\ ScheduleUpdate(path)) =>
            UNCHANGED <<updateTimeout, lastEvent, bursts, refreshCalls>>]_vars

\* C28 witness: a burst of three events has ended with one call, 300 ms after
\* its last event, and an event on a filtered path was handled besides.
C28_Witness ==
  /\ bursts = <<3>>
  /\ fileEvents = 4
  /\ refreshCalls = 1
  /\ updateTimeout.pending = {}
  /\ now = lastEvent + DebounceMs

(***************************************************************************)
(* parseDiffText: records, hunk headers and paths                         *)
(***************************************************************************)

\* the hunks, by their order of opening, whose hunk header lies between the
\* k-th file header and the next one (or the end of the text)
OpenedIn(lines, k) ==
  {n \in 1..Cardinality(HunkHeaderIndexes(lines)) :
     StartOfHunk(lines, n) \in LinesOfFile(lines, k)}

\* the numbers of a set in ascending order
Ascending(S) ==
  [j \in 1..Cardinality(S) |-> CHOOSE n \in S : Cardinality({m \in S : m <= n}) = j]

\* C31: parseDiffText returns one file record for each line that starts with
\* 'diff --git', in the order of the text, and the k-th record holds exactly
\* the hunks opened between the k-th header and the next header or the end of
\* the text, in the order of the text, none twice and none missing.
C31_RecordsAndHunksInOrder ==
  ppc = "done" =>
    /\ Len(parsed) = Cardinality(HeaderIndexes(InputLines))
    /\ \A k \in DOMAIN parsed :
         /\ parsed[k].filePath = FilePathOf(InputLines[KthHeader(InputLines, k)])
         /\ FinalScan.parsedDiffs[k].hunks = Ascending(OpenedIn(InputLines, k))

\* a text with no malformed '@@' line and no hunk header before its first
\* file header
OrderlyText(lines) ==
  /\ MalformedHeaderIndexes(lines) = {}
  /\ \A i \in HunkHeaderIndexes(lines) : \E j \in HeaderIndexes(lines) : j < i

\* on such texts the records and their hunks are those of the text, in order
OrderlyTextInOrder ==
  (ppc = "done" /\ OrderlyText(InputLines)) =>
    /\ Len(parsed) = Cardinality(HeaderIndexes(InputLines))
    /\ \A k \in DOMAIN parsed :
         FinalScan.parsedDiffs[k].hunks = Ascending(OpenedIn(InputLines, k))

\* two files with one hunk each have been parsed
TwoFilesTwoHunks ==
  /\ ppc = "done"
  /\ input = JoinLines(<<L_HeaderX, L_Hunk, L_HeaderX, L_HunkDefault>>)
  /\ Len(parsed) = 2
  /\ parsed[1].hunks[1].oldStart = 1 /\ parsed[2].hunks[1].oldStart = 5

\* hunk headers '@@ -a[,b] +c[,d] @@', by their numbers; a count is <<>> when
\* left out and <<n>> when given: counts left out, zero, and of two digits
HeaderForms ==
  {[a |-> 10, b |-> <<>>, c |-> 3, d |-> <<>>],
   [a |-> 0, b |-> <<0>>, c |-> 3, d |-> <<12>>],
   [a |-> 10, b |-> <<12>>, c |-> 3, d |-> <<0>>],
   [a |-> 0, b |-> <<>>, c |-> 3, d |-> <<0>>]}

\* start[,count] as written in a hunk header
RangeText(start, count) ==
  ToDigits(start) \o (IF count = <<>> THEN <<>> ELSE <<",">> \o ToDigits(count[1]))

\* the line '@@ -a[,b] +c[,d] @@'
HunkHeaderText(h) ==
  <<"@", "@", " ", "-">> \o RangeText(h.a, h.b) \o <<" ", "+">> \o RangeText(h.c, h.d)
    \o <<" ", "@", "@">>

\* the count a hunk header gives: the number written, 1 when left out
GivenCount(count) == IF count = <<>> THEN 1 ELSE count[1]

\* the lines the hunk in progress has after the scan state st reads the line
LinesAfter(st, line) == ParseLine(st, line).heap[st.currentHunk].lines

\* the hunk header h read in the scan state st: the previous hunk in progress
\* goes to the current file, a new hunk with the header's numbers is in
\* progress, and its first lines are numbered from the header's starts
HeaderStartsHunk(st, h) ==
  \A after \in {ParseLine(st, HunkHeaderText(h))} :
     /\ after.currentHunk \notin DOMAIN st.heap
     /\ after.currentHunk \in DOMAIN after.heap
     /\ after.heap[after.currentHunk] =
          [oldStart |-> h.a, oldCount |-> GivenCount(h.b),
           newStart |-> h.c, newCount |-> GivenCount(h.d), lines |-> <<>>]
     /\ after.parsedDiffs = st.parsedDiffs
     /\ after.currentFile =
          IF st.currentHunk # 0 /\ st.currentFile # <<>>
          THEN <<[st.currentFile[1] EXCEPT !.hunks = Append(@, st.currentHunk)]>>
          ELSE st.currentFile
     /\ after.currentFile # <<>> =>
          /\ LinesAfter(after, L_Remove) =
               <<[type |-> "remove", content |-> <<"b">>, oldLineNumber |-> h.a]>>
          /\ LinesAfter(after, L_Add) =
               <<[type |-> "add", content |-> <<"a">>, newLineNumber |-> h.c]>>
          /\ LinesAfter(after, L_Context) =
               <<[type |-> "context", content |-> <<"c">>,
                  oldLineNumber |-> h.a, newLineNumber |-> h.c]>>

\* C32: after the lines of every text (every prefix of a text is a text) a
\* line '@@ -a[,b] +c[,d] @@' puts the hunk in progress into the current file and starts a hunk with oldStart a,
\* newStart c, oldCount b when given (zero included) and 1 when left out,
\* newCount d likewise; the first old-side line of the new hunk is numbered a
\* and the first new-side line c, whatever the counters were before.
C32_HunkHeaderStartsHunk ==
  ppc = "done" =>
    \A st \in {ParseLines(ScanStart, InputLines, 1)} :
      \A h \in HeaderForms : HeaderStartsHunk(st, h)

\* C32 witness: a hunk with zero old lines and two add lines, then a hunk
\* whose counts are left out, parsed to oldCount 0 and to counts of 1, the
\* second hunk's lines numbered from 4 and 6.
C32_Witness ==
  /\ ppc = "done"
  /\ input = ZeroCount_Text
  /\ Len(parsed) = 1 /\ Len(parsed[1].hunks) = 2
  /\ parsed[1].hunks[1].oldStart = 0 /\ parsed[1].hunks[1].oldCount = 0
  /\ parsed[1].hunks[1].newCount = 2
  /\ parsed[1].hunks[2].oldCount = 1 /\ parsed[1].hunks[2].newCount = 1
  /\ parsed[1].hunks[2].lines[1].oldLineNumber = 4
  /\ parsed[1].hunks[2].lines[1].newLineNumber = 6
  /\ parsed[1].hunks[2].lines[2].oldLineNumber = 5

\* what follows 'diff --git ' in a file header
HeaderRest(line) == Substring(line, Len(S_DiffGit) + 1)

\* the header is 'diff --git a/P b/P' for the path P
IsHeaderOf(line, P) ==
  line = S_DiffGit \o <<" ", "a", "/">> \o P \o <<" ", "b", "/">> \o P

\* the header is 'diff --git a/P' for the path P
IsSingleHeaderOf(line, P) == line = S_DiffGit \o <<" ", "a", "/">> \o P

\* the paths P a header of either form can carry: the parts of the header's
\* rest after a 2-character prefix
PathsOf(line) ==
  {SubSeq(HeaderRest(line), 3, n) : n \in 3..Len(HeaderRest(line))}

\* C33: the record of a file header 'diff --git a/P b/P' has filePath P, also
\* when P holds spaces; the record of a header with one path token has that
\* token without its 2-character prefix.
C33_FilePathOfHeader ==
  ppc = "done" =>
    \A k \in DOMAIN parsed :
      \A P \in PathsOf(InputLines[KthHeader(InputLines, k)]) :
        (\/ IsHeaderOf(InputLines[KthHeader(InputLines, k)], P)
         \/ /\ IsSingleHeaderOf(InputLines[KthHeader(InputLines, k)], P)
            /\ \A i \in DOMAIN P : P[i] # " ")
          => parsed[k].filePath = P

\* paths without a space are recorded as the header gives them
SpacelessPathRecorded ==
  ppc = "done" =>
    \A k \in DOMAIN parsed :
      \A P \in PathsOf(InputLines[KthHeader(InputLines, k)]) :
        (/\ \/ IsHeaderOf(InputLines[KthHeader(InputLines, k)], P)
            \/ IsSingleHeaderOf(InputLines[KthHeader(InputLines, k)], P)
         /\ \A i \in DOMAIN P : P[i] # " ")
          => parsed[k].filePath = P

\* the header with one path token has been parsed to the record of y.ts
SingleTokenParsed ==
  /\ ppc = "done" /\ input = JoinLines(<<L_HeaderSingle>>)
  /\ Len(parsed) = 1 /\ parsed[1].filePath = <<"y", ".", "t", "s">>

(***************************************************************************)
(* Commit watching: notifications without a revision, order, lost changes  *)
(***************************************************************************)

\* a notification is delivered in this step: handler calls are started
Delivered == BagCardinality(handlers') > BagCardinality(handlers)

\* the handler calls this step starts
StartedHandlers ==
  IF Delivered
  THEN {h \in BagToSet(handlers') : CopiesIn(h, handlers') > CopiesIn(h, handlers)}
  ELSE {}

\* C34: a notification handled while the repository has no current revision
\* leaves lastRevision as it was, starts no acquisition and no working-tree
\* analysis: its handler has completed when the step ends, with no error.
C34_NoRevisionNoEffect ==
  [][(head = NULL /\ StartedHandlers # {})
     => /\ lastCommitSha' = lastCommitSha
        /\ Acquisitions(handlers') = Acquisitions(handlers)
        /\ InFlight(handlers') = InFlight(handlers)
        /\ \A h \in StartedHandlers :
             h.observed = NULL /\ h.acq = <<>> /\ h.pc = "done" /\ h.outcome = "none"
        /\ errorMessages' = errorMessages]_vars

\* C34 witness: with r1 recorded the repository lost its revision and a
\* notification was handled: r1 is still recorded and nothing was started.
C34_Witness ==
  /\ head = NULL /\ lastCommitSha = "r1"
  /\ \E h \in BagToSet(handlers) : h.observed = NULL /\ h.pc = "done"
  /\ Acquisitions(handlers) = 0

\* the acquisition of the call h ends in this step, and the call records the
\* revision it observed
RecordsLate(h) ==
  /\ h.pc = "analyzeNewCommit"
  /\ CopiesIn(h, handlers') < CopiesIn(h, handlers)

\* the calls other than h that are suspended in an acquisition
OthersInFlight(h) ==
  {g \in BagToSet(handlers) :
     g.pc = "analyzeNewCommit" /\ (g # h \/ CopiesIn(h, handlers) > 1)}

\* C35: the call whose acquisition ends last leaves lastRevision at the
\* revision the most recently delivered notification observed; and no call
\* records the revision it observed over the revision that the calls of the
\* latest notification have recorded.
C35_LatestObservationWins ==
  [][\A h \in BagToSet(handlers) :
       (RecordsLate(h) /\ latestObserved # NULL) =>
         /\ OthersInFlight(h) = {} => lastCommitSha' = latestObserved
         /\ (/\ lastCommitSha = latestObserved
             /\ \A g \in OthersInFlight(h) : g.observed # latestObserved)
              => h.observed = latestObserved]_vars

\* a revision transition waits for its notification: a revision is recorded,
\* the repository is at another one, and no handler call is under way
TransitionPending ==
  /\ lastCommitSha # NULL /\ head # NULL /\ lastCommitSha # head
  /\ AllHandlersDone

\* what a step owes a pending transition: unless the revision changes again
\* the recorded revision stays, and a notification starts the acquisition for
\* the recorded and the current revision
TransitionKept ==
  /\ head' = head => lastCommitSha' = lastCommitSha
  /\ Delivered =>
       AcquisitionsFor(handlers', lastCommitSha, head)
         > AcquisitionsFor(handlers, lastCommitSha, head)

\* C36: no revision transition is lost: with r1 recorded and the repository
\* changed to r2, no discovery retry, repository-opened event or
\* refreshGitDetection touches the recorded revision before the notification
\* is delivered, and the notification starts an acquisition for (r1, r2).
C36_NoTransitionLost == [][TransitionPending => TransitionKept]_vars

\* the steps of repository discovery: a retry fires, initializeGit resumes
DiscoveryStep == timers' # timers \/ initPending' < initPending

\* steps other than those of repository discovery keep a pending transition
OnlyDiscoveryLosesTransition ==
  [][(TransitionPending /\ ~DiscoveryStep) => TransitionKept]_vars

(***************************************************************************)
(* CommentManager: calls in flight together                                *)
(***************************************************************************)

\* the displayReviewsAsComments call d returns in this step
Returns(d) == d \in displays /\ \A e \in displays' : e.call # d.call

\* a displayReviewsAsComments call made in this step returns in it (its review
\* has no suggestions)
ReturnsAtOnce == reviews' = reviews + 1 /\ \A e \in displays' : e.call # reviews'

\* C37: a new review supersedes the prior one: when a displayReviewsAsComments
\* call returns, every active thread is one that call created for a suggestion
\* of its review, whatever other call was started before it returned.
C37_NewReviewSupersedes ==
  [][/\ \A d \in displays : Returns(d) => DOMAIN threads' \subseteq CreatedBy(d)
     /\ ReturnsAtOnce => DOMAIN threads' = {}]_vars

\* the replace edits handed to workspace.applyEdit for the thread and not yet
\* answered
EditsInFlight(threadId) == {a \in applying : a.threadId = threadId}

\* C38: a thread's replacement is written at most once: of two applySuggestion
\* commands on one thread, the second issued while the first awaits its edit,
\* at most one hands a replace edit to the workspace.
C38_ReplacementWrittenOnce ==
  \A id \in ThreadIds : Cardinality(EditsInFlight(id)) <= 1

\* C39: in every reachable state of the CommentManager the maps threads and
\* threadData have the same thread ids as keys, whatever threads were created,
\* applied, resolved, fixed, replied to or cleared, and in whatever order the
\* suspended calls resumed.
C39_SameKeys == DOMAIN threads = DOMAIN threadData

\* C39 witness: of two threads created the first has been removed while a
\* request to the model is under way for the second, which is in both maps.
C39_Witness ==
  /\ DOMAIN threads = {2} /\ DOMAIN threadData = {2}
  /\ nextThreadId = 3
  /\ \E q \in asking : q.threadId = 2

====
